---------------------------- MODULE Spec2Model ----------------------------
(***************************************************************************)
(* HioLang: lexer, recursive-descent parser, tree-walking evaluator and    *)
(* stack-machine emitter, modelled from HIOLANG/src/{lexer,parser,ast,     *)
(* interpreter,compiler}.rs.                                               *)
(*                                                                         *)
(* Conventions.  A Rust `char` is a TLA+ string: one character for ASCII,  *)
(* a name such as "EMDASH" or "E_ACUTE" for a code point outside ASCII.    *)
(* A Rust `String` of the language (an identifier, a key, a string value)  *)
(* is a sequence of chars; diagnostics and standard output are TLA+        *)
(* strings.  An Option<char> is the char or "None"; any other Option is a  *)
(* sequence of no or one element.  A Rust enum value is a record whose     *)
(* first field (k for tokens, syntax and bytecode, t for values) is the    *)
(* variant's name.                                                         *)
(***************************************************************************)
EXTENDS Integers, Sequences, FiniteSets, TLC

VARIABLES
    mode,        \* which component runs: "main", "lex", "parse", "eval", "emit", "done", "exited"
    lexer,       \* struct Lexer {input, position, current_char}
    tokens,      \* Lexer::tokenize's `tokens` vector
    parser,      \* struct Parser {tokens, position}
    statements,  \* Parser::parse's `statements` vector
    parsed,      \* Parser::parse's result, once it returned
    program,     \* the Program handed to interpret / compile
    interp,      \* struct Interpreter, with stdout and the event log
    pc,          \* index of the next top-level statement of the driver loop
    last_value,  \* Interpreter::interpret's `last_value`
    returned,    \* what interpret returned, once it returned
    twin,        \* a second, independent evaluation of the same program
    compiler,    \* struct Compiler {bytecode, functions}
    unary,       \* one application of apply_unary_op: [op, val, res]
    proc         \* the command-line process of main: its arguments, files and exit

vars == <<mode, lexer, tokens, parser, statements, parsed, program, interp,
          pc, last_value, returned, twin, compiler, unary, proc>>

None == "None"

(***************************************************************************)
(* Bounds of the model.                                                    *)
(***************************************************************************)
MaxLen == 3     \* longest input string of the lexer specification
MaxIter == 3    \* loop iterations an evaluation may run before it is cut off
MaxElems == 2   \* longest string, array and program of the value specifications
MaxNumLen == 5  \* longest input string of the numeric-literal specification

(***************************************************************************)
(* Sequence helpers.                                                       *)
(***************************************************************************)
Last(s) == s[Len(s)]

RECURSIVE Concat(_)
Concat(cs) == IF cs = <<>> THEN "" ELSE Head(cs) \o Concat(Tail(cs))

RECURSIVE JoinStr(_, _)
JoinStr(ss, sep) ==
    IF ss = <<>> THEN ""
    ELSE IF Len(ss) = 1 THEN ss[1]
    ELSE ss[1] \o sep \o JoinStr(Tail(ss), sep)

SeqsUpTo(S, n) == UNION {[1..k -> S] : k \in 0..n}

(***************************************************************************)
(* lexer.rs                                                                *)
(***************************************************************************)
WhitespaceChars == {" ", "\t", "\n", "\r"}
Digits == <<"0", "1", "2", "3", "4", "5", "6", "7", "8", "9">>
NumericChars == {Digits[i] : i \in 1..Len(Digits)}
AlphabeticChars ==
    {"a", "b", "c", "d", "e", "f", "g", "h", "i", "j", "k", "l", "m", "n", "o",
     "p", "q", "r", "s", "t", "u", "v", "w", "x", "y", "z",
     "A", "B", "C", "D", "E", "F", "G", "H", "I", "J", "K", "L", "M", "N", "O",
     "P", "Q", "R", "S", "T", "U", "V", "W", "X", "Y", "Z", "E_ACUTE"}

is_whitespace(ch) == ch \in WhitespaceChars
is_numeric(ch) == ch \in NumericChars
is_alphabetic(ch) == ch \in AlphabeticChars
is_alphanumeric(ch) == is_alphabetic(ch) \/ is_numeric(ch)

DigitVal(ch) == (CHOOSE i \in 1..Len(Digits) : Digits[i] = ch) - 1

Tok(kind) == [k |-> kind]
TokV(kind, v) == [k |-> kind, v |-> v]
EofTok == Tok("Eof")
NoToken == Tok("NoToken")   \* the pass of next_token's loop returned nothing

\* Lexer::new
LexerNew(chars) ==
    [input |-> chars, position |-> 0,
     current_char |-> IF chars = <<>> THEN None ELSE chars[1]]

\* Lexer::advance
advance(lx) ==
    LET p == lx.position + 1 IN
    [lx EXCEPT !.position = p,
               !.current_char = IF p >= Len(lx.input) THEN None ELSE lx.input[p + 1]]

\* Lexer::peek
peek(lx, offset) ==
    LET pos == lx.position + offset IN
    IF pos < Len(lx.input) THEN lx.input[pos + 1] ELSE None

\* Lexer::skip_whitespace
RECURSIVE skip_whitespace(_)
skip_whitespace(lx) ==
    IF lx.current_char # None /\ is_whitespace(lx.current_char)
    THEN skip_whitespace(advance(lx))
    ELSE lx

\* the while loop of Lexer::skip_comment
RECURSIVE skip_to_eol(_)
skip_to_eol(lx) ==
    IF lx.current_char # None /\ lx.current_char # "\n"
    THEN skip_to_eol(advance(lx))
    ELSE lx

\* Lexer::skip_comment
skip_comment(lx) ==
    IF lx.current_char = "'" /\ peek(lx, 1) = "'" THEN skip_to_eol(lx) ELSE lx

\* Lexer::read_identifier: [lx, result]
RECURSIVE read_identifier_from(_, _)
read_identifier_from(lx, acc) ==
    IF lx.current_char # None
       /\ (is_alphanumeric(lx.current_char) \/ lx.current_char = "_")
    THEN read_identifier_from(advance(lx), Append(acc, lx.current_char))
    ELSE [lx |-> lx, result |-> acc]

read_identifier(lx) == read_identifier_from(lx, <<>>)

\* the escape table of Lexer::read_string
Unescape(ch) ==
    CASE ch = "n" -> "\n"
      [] ch = "t" -> "\t"
      [] ch = "r" -> "\r"
      [] OTHER -> ch

\* the while loop of Lexer::read_string: [lx, result]
RECURSIVE read_string_from(_, _, _)
read_string_from(lx, quote, acc) ==
    LET ch == lx.current_char IN
    IF ch = None THEN [lx |-> lx, result |-> acc]
    ELSE IF ch = quote THEN [lx |-> advance(lx), result |-> acc]
    ELSE IF ch = "\\" THEN
        LET lx1 == advance(lx) IN
        IF lx1.current_char = None THEN [lx |-> lx1, result |-> acc]
        ELSE read_string_from(advance(lx1), quote,
                              Append(acc, Unescape(lx1.current_char)))
    ELSE read_string_from(advance(lx), quote, Append(acc, ch))

\* Lexer::read_string
read_string(lx, quote) == read_string_from(advance(lx), quote, <<>>)

\* the while loop of Lexer::read_number: [lx, result], result a sequence of chars
RECURSIVE read_number_from(_, _)
read_number_from(lx, acc) ==
    LET ch == lx.current_char IN
    IF ch # None /\ is_numeric(ch)
    THEN read_number_from(advance(lx), Append(acc, ch))
    ELSE IF ch = "." /\ peek(lx, 1) # None /\ is_numeric(peek(lx, 1))
    THEN read_number_from(advance(lx), Append(acc, ch))
    ELSE [lx |-> lx, result |-> acc]

RECURSIVE DigitsValue(_, _)
DigitsValue(cs, acc) ==
    IF cs = <<>> THEN acc ELSE DigitsValue(Tail(cs), 10 * acc + DigitVal(Head(cs)))

\* a float is [m, e]: the value m / 10^e, with no trailing zero in the fraction
RECURSIVE NormFloat(_, _)
NormFloat(m, e) ==
    IF e > 0 /\ m % 10 = 0 THEN NormFloat(m \div 10, e - 1) ELSE [m |-> m, e |-> e]

DotCount(cs) == Cardinality({i \in 1..Len(cs) : cs[i] = "."})
DotAt(cs) == CHOOSE i \in 1..Len(cs) : cs[i] = "."

\* str::parse::<i64>().unwrap_or(0) on a run of digits
\* (a run past i64 parses to 0; the model's inputs hold no run of more than
\* 9 digits, which the model's integers can hold)
ParseI64(cs) == IF Len(cs) > 9 THEN 0 ELSE DigitsValue(cs, 0)

\* str::parse::<f64>().unwrap_or(0.0) on digits with dots: more than one dot
\* is no float literal
ParseF64(cs) ==
    IF DotCount(cs) # 1 THEN NormFloat(0, 0)
    ELSE LET d == DotAt(cs)
             whole == SubSeq(cs, 1, d - 1)
             frac == SubSeq(cs, d + 1, Len(cs))
         IN NormFloat(DigitsValue(whole \o frac, 0), Len(frac))

\* Lexer::read_number: [lx, tok]
read_number(lx) ==
    LET r == read_number_from(lx, <<>>) IN
    [lx |-> r.lx,
     tok |-> IF DotCount(r.result) > 0
             THEN TokV("Float", ParseF64(r.result))
             ELSE TokV("Number", ParseI64(r.result))]

Keywords ==
    [space |-> "Space", end |-> "End", make |-> "Make", inspace |-> "Inspace",
     call |-> "Call", text |-> "Text", pub |-> "Pub", subpub |-> "Subpub",
     function |-> "Function", return |-> "Return", if |-> "If", else |-> "Else",
     while |-> "While", for |-> "For", break |-> "Break",
     continue |-> "Continue", let |-> "Let"]

\* one-character tokens of next_token
SingleCharTokens ==
    [c \in {"+", "EMDASH", "*", "/", "%", "(", ")", "{", "}", "[", "]", ";", ":",
            ",", "."} |->
        CASE c = "+" -> "Plus" [] c = "EMDASH" -> "DashArrow" [] c = "*" -> "Star"
          [] c = "/" -> "Slash" [] c = "%" -> "Percent" [] c = "(" -> "LeftParen"
          [] c = ")" -> "RightParen" [] c = "{" -> "LeftBrace"
          [] c = "}" -> "RightBrace" [] c = "[" -> "LeftBracket"
          [] c = "]" -> "RightBracket" [] c = ";" -> "Semicolon"
          [] c = ":" -> "Colon" [] c = "," -> "Comma" [] c = "." -> "Dot"]

\* the arms `advance; if current_char == second {advance; return two}; return one`
TwoCharToken(lx, second, two, one) ==
    LET lx1 == advance(lx) IN
    IF lx1.current_char = second
    THEN [lx |-> advance(lx1), tok |-> Tok(two)]
    ELSE [lx |-> lx1, tok |-> Tok(one)]

\* the arms for '&' and '|': a lone one steps back and advances again
AmpOrBar(lx, ch, kind) ==
    LET lx1 == advance(lx) IN
    IF lx1.current_char = ch
    THEN [lx |-> advance(lx1), tok |-> Tok(kind)]
    ELSE LET back == [lx1 EXCEPT !.position = @ - 1, !.current_char = ch]
         IN [lx |-> advance(back), tok |-> Tok(kind)]

\* a faulty variant of the arm below, without its advance: the unknown
\* character stays the current one
SkipUnknownStuck(lx) == [lx |-> lx, tok |-> NoToken]

\* the arm for an unrecognized character
SkipUnknown(lx) == [lx |-> advance(lx), tok |-> NoToken]

\* One pass of the loop of Lexer::next_token: [lx, tok]; tok is NoToken when
\* the pass falls through to the next pass.
NextTokenPass(lx0) ==
    LET lx == skip_whitespace(lx0)
        ch == lx.current_char
    IN
    CASE ch = None -> [lx |-> lx, tok |-> EofTok]
      [] ch = "'" /\ peek(lx, 1) = "'" -> [lx |-> skip_comment(lx), tok |-> NoToken]
      [] ch = "-" -> TwoCharToken(lx, ">", "Arrow", "Minus")
      [] ch = "=" -> TwoCharToken(lx, "=", "EqualEqual", "Equal")
      [] ch = "!" -> TwoCharToken(lx, "=", "NotEqual", "Not")
      [] ch = "<" -> TwoCharToken(lx, "=", "LessEqual", "Less")
      [] ch = ">" -> TwoCharToken(lx, "=", "GreaterEqual", "Greater")
      [] ch = "&" -> AmpOrBar(lx, "&", "And")
      [] ch = "|" -> AmpOrBar(lx, "|", "Or")
      [] ch \in DOMAIN SingleCharTokens ->
            [lx |-> advance(lx), tok |-> Tok(SingleCharTokens[ch])]
      [] ch = "\"" \/ (ch = "'" /\ peek(lx, 1) # "'") ->
            LET r == read_string(lx, ch) IN
            [lx |-> r.lx, tok |-> TokV("String", r.result)]
      [] ch # None /\ is_numeric(ch) -> read_number(lx)
      [] ch # None /\ (is_alphabetic(ch) \/ ch = "_") ->
            LET r == read_identifier(lx) IN
            [lx |-> r.lx,
             tok |-> IF Concat(r.result) \in DOMAIN Keywords
                     THEN Tok(Keywords[Concat(r.result)])
                     ELSE TokV("Identifier", r.result)]
      [] OTHER -> SkipUnknown(lx)

\* Lexer::tokenize, one pass of next_token's loop at a time: a pass that
\* returns a token pushes it, and Eof ends the loop.
TokenizePass(lx, toks) ==
    LET r == NextTokenPass(lx) IN
    [lx |-> r.lx,
     tokens |-> IF r.tok = NoToken THEN toks ELSE Append(toks, r.tok),
     finished |-> r.tok = EofTok]

\* Lexer::tokenize run to its end (Parser::new calls it).  `fuel` bounds the
\* passes; each pass that does not finish consumes input.
RECURSIVE tokenize_from(_, _, _)
tokenize_from(lx, toks, fuel) ==
    LET r == TokenizePass(lx, toks) IN
    IF r.finished \/ fuel = 0 THEN r.tokens
    ELSE tokenize_from(r.lx, r.tokens, fuel - 1)

tokenize(chars) == tokenize_from(LexerNew(chars), <<>>, Len(chars) + 1)

(***************************************************************************)
(* ast.rs: values                                                          *)
(***************************************************************************)
VNumber(n) == [t |-> "Number", v |-> n]
VFloat(f) == [t |-> "Float", v |-> f]
VString(cs) == [t |-> "String", v |-> cs]
VBoolean(b) == [t |-> "Boolean", v |-> b]
VArray(a) == [t |-> "Array", v |-> a]
VObject(m) == [t |-> "Object", v |-> m]
VVoid == [t |-> "Void"]

Some(x) == <<x>>
NoneOpt == <<>>

\* HashMap::new, HashMap::insert
EmptyMap == <<>>
MapPut(m, key, val) ==
    [x \in (DOMAIN m) \cup {key} |-> IF x = key THEN val ELSE m[x]]

\* a faulty variant of Value::is_truthy in which Float(0.0) is falsey as
\* Number(0) is
is_truthy_float_zero_falsey(val) ==
    CASE val.t = "Boolean" -> val.v
      [] val.t = "Void" -> FALSE
      [] val.t = "Number" -> val.v # 0
      [] val.t = "Float" -> val.v.m # 0
      [] val.t = "String" -> Len(val.v) # 0
      [] val.t = "Array" -> Len(val.v) # 0
      [] val.t = "Object" -> DOMAIN val.v # {}

\* Value::is_truthy
is_truthy(val) ==
    CASE val.t = "Boolean" -> val.v
      [] val.t = "Void" -> FALSE
      [] val.t = "Number" -> val.v # 0
      [] val.t = "String" -> Len(val.v) # 0
      [] val.t = "Array" -> Len(val.v) # 0
      [] val.t = "Object" -> DOMAIN val.v # {}
      [] OTHER -> TRUE

RECURSIVE Pow10(_)
Pow10(e) == IF e = 0 THEN 1 ELSE 10 * Pow10(e - 1)

RECURSIVE ZeroPad(_, _)
ZeroPad(str, width) == IF Len(str) >= width THEN str ELSE ZeroPad("0" \o str, width)

\* f64's Display for the float [m, e] (the model's floats hold no negative zero)
FloatToString(f) ==
    LET a == IF f.m < 0 THEN 0 - f.m ELSE f.m
        sign == IF f.m < 0 THEN "-" ELSE ""
    IN IF f.e = 0 THEN sign \o ToString(a)
       ELSE sign \o ToString(a \div Pow10(f.e)) \o "."
                 \o ZeroPad(ToString(a % Pow10(f.e)), f.e)

\* The keys of a HashMap in its iteration order.  The order is that of the
\* map's hasher, which the standard library seeds at random: `order`, a
\* sequence holding every key, stands for it.
MapKeys(m, order) == SelectSeq(order, LAMBDA key : key \in DOMAIN m)

\* Value::to_string
RECURSIVE to_string(_, _)
to_string(val, order) ==
    CASE val.t = "Number" -> ToString(val.v)
      [] val.t = "Float" -> FloatToString(val.v)
      [] val.t = "String" -> Concat(val.v)
      [] val.t = "Boolean" -> IF val.v THEN "true" ELSE "false"
      [] val.t = "Array" ->
            "[" \o JoinStr([i \in 1..Len(val.v) |-> to_string(val.v[i], order)], ", ")
                \o "]"
      [] val.t = "Object" ->
            LET keys == MapKeys(val.v, order) IN
            "{" \o JoinStr([i \in 1..Len(keys) |->
                                Concat(keys[i]) \o ": " \o to_string(val.v[keys[i]], order)],
                           ", ")
                \o "}"
      [] val.t = "Void" -> "void"

(***************************************************************************)
(* interpreter.rs                                                          *)
(*                                                                         *)
(* The record `it` is struct Interpreter together with what an evaluation  *)
(* acts on or leaves behind: stdout, the iteration order of the hash maps  *)
(* of this run (hash_order), and two history fields no modelled code ever  *)
(* reads: log, the sequence of evaluation events, and cut, set when a loop *)
(* was stopped at MaxIter iterations.                                      *)
(***************************************************************************)
s_print == <<"p", "r", "i", "n", "t">>
s_len == <<"l", "e", "n">>
s_type == <<"t", "y", "p", "e">>
s_writeutil == <<"w", "r", "i", "t", "e", "u", "t", "i", "l">>
s_text == <<"t", "e", "x", "t">>
s_builtin_ == <<"b", "u", "i", "l", "t", "i", "n", ":">>
s_function_ == <<"f", "u", "n", "c", "t", "i", "o", "n", ":">>

Ok(v) == [ok |-> TRUE, v |-> v]
Err(msg) == [ok |-> FALSE, err |-> msg]
Out(it, r) == [it |-> it, r |-> r]
CutOff == "<cut off>"

\* Interpreter::new
InterpreterNew(order) ==
    [globals |-> MapPut(MapPut(MapPut(EmptyMap,
                    s_print, VString(s_builtin_ \o s_print)),
                    s_len, VString(s_builtin_ \o s_len)),
                    s_type, VString(s_builtin_ \o s_type)),
     locals |-> <<>>,
     return_value |-> NoneOpt,
     break_flag |-> FALSE,
     continue_flag |-> FALSE,
     stdout |-> "",
     hash_order |-> order,
     log |-> <<>>,
     cut |-> FALSE]

Log(it, ev) == [it EXCEPT !.log = Append(@, ev)]
Step(kind, i) == [c |-> kind, i |-> i]
Flagged(it) == it.return_value # NoneOpt \/ it.break_flag \/ it.continue_flag
Cut(it) == Out([it EXCEPT !.cut = TRUE], Err(CutOff))

\* the names a Space's surroundings can see: those of globals and of each frame
Visible(it) ==
    [g |-> DOMAIN it.globals,
     l |-> [i \in 1..Len(it.locals) |-> DOMAIN it.locals[i]]]

\* Interpreter::get_variable: an Option<Value>
RECURSIVE get_local(_, _, _)
get_local(locals, i, name) ==
    IF i = 0 THEN NoneOpt
    ELSE IF name \in DOMAIN locals[i] THEN Some(locals[i][name])
    ELSE get_local(locals, i - 1, name)

get_variable(it, name) ==
    LET l == get_local(it.locals, Len(it.locals), name) IN
    IF l # NoneOpt THEN l
    ELSE IF name \in DOMAIN it.globals THEN Some(it.globals[name])
    ELSE NoneOpt

\* Interpreter::set_variable
set_variable(it, name, value) ==
    IF it.locals # <<>>
    THEN [it EXCEPT !.locals[Len(it.locals)] = MapPut(@, name, value)]
    ELSE [it EXCEPT !.globals = MapPut(@, name, value)]

\* i64 `/` and `%`: the quotient truncates toward zero
TruncDiv(a, b) ==
    LET abs(x) == IF x < 0 THEN 0 - x ELSE x
        q == abs(a) \div abs(b)
    IN IF (a < 0) = (b < 0) THEN q ELSE 0 - q
TruncRem(a, b) == a - b * TruncDiv(a, b)

\* a faulty variant of apply_binary_op in which the arithmetic of integer
\* pairs takes `&&` and `||` too
apply_binary_op_bitwise(left, op, right) ==
    IF left.t = "Number" /\ right.t = "Number" /\ op \in {"And", "Or"}
    THEN Ok(VNumber(IF op = "And" THEN left.v * right.v ELSE left.v + right.v))
    ELSE IF op \in {"And", "Or"}
    THEN Ok(VBoolean(IF op = "And" THEN is_truthy(left) /\ is_truthy(right)
                     ELSE is_truthy(left) \/ is_truthy(right)))
    ELSE Err("Invalid binary operation: " \o left.t \o " " \o op \o " " \o right.t)

\* Interpreter::apply_binary_op
apply_binary_op(left, op, right) ==
    LET nn == left.t = "Number" /\ right.t = "Number"
        a == left.v
        b == right.v
    IN
    CASE nn /\ op = "Add" -> Ok(VNumber(a + b))
      [] nn /\ op = "Subtract" -> Ok(VNumber(a - b))
      [] nn /\ op = "Multiply" -> Ok(VNumber(a * b))
      [] nn /\ op = "Divide" ->
            IF b = 0 THEN Err("Division by zero") ELSE Ok(VNumber(TruncDiv(a, b)))
      [] nn /\ op = "Modulo" ->
            IF b = 0 THEN Err("Modulo by zero") ELSE Ok(VNumber(TruncRem(a, b)))
      [] left.t = "String" /\ op = "Add" /\ right.t = "String" -> Ok(VString(a \o b))
      [] nn /\ op = "Equal" -> Ok(VBoolean(a = b))
      [] nn /\ op = "NotEqual" -> Ok(VBoolean(a # b))
      [] nn /\ op = "Less" -> Ok(VBoolean(a < b))
      [] nn /\ op = "LessEqual" -> Ok(VBoolean(a <= b))
      [] nn /\ op = "Greater" -> Ok(VBoolean(a > b))
      [] nn /\ op = "GreaterEqual" -> Ok(VBoolean(a >= b))
      [] op = "And" -> Ok(VBoolean(is_truthy(left) /\ is_truthy(right)))
      [] op = "Or" -> Ok(VBoolean(is_truthy(left) \/ is_truthy(right)))
      [] OTHER -> Err("Invalid binary operation: " \o left.t \o " " \o op \o " " \o right.t)

\* Interpreter::apply_unary_op
apply_unary_op(op, val) ==
    CASE op = "Negate" /\ val.t = "Number" -> Ok(VNumber(0 - val.v))
      [] op = "Negate" /\ val.t = "Float" -> Ok(VFloat([val.v EXCEPT !.m = 0 - @]))
      [] op = "Not" -> Ok(VBoolean(~is_truthy(val)))
      [] OTHER -> Err("Invalid unary operation: " \o op \o " " \o val.t)

TypeName(val) ==
    CASE val.t = "Number" -> <<"n", "u", "m", "b", "e", "r">>
      [] val.t = "Float" -> <<"f", "l", "o", "a", "t">>
      [] val.t = "String" -> <<"s", "t", "r", "i", "n", "g">>
      [] val.t = "Boolean" -> <<"b", "o", "o", "l", "e", "a", "n">>
      [] val.t = "Array" -> <<"a", "r", "r", "a", "y">>
      [] val.t = "Object" -> <<"o", "b", "j", "e", "c", "t">>
      [] val.t = "Void" -> <<"v", "o", "i", "d">>

\* bytes of a char in UTF-8: String::len counts bytes
Utf8Len(ch) ==
    CASE ch = "E_ACUTE" -> 2
      [] ch = "EMDASH" -> 3
      [] OTHER -> 1

RECURSIVE ByteLen(_)
ByteLen(cs) == IF cs = <<>> THEN 0 ELSE Utf8Len(Head(cs)) + ByteLen(Tail(cs))

\* a faulty variant of the join below that leaves the separator out
RECURSIVE JoinCharsNoSep(_, _)
JoinCharsNoSep(names, sep) ==
    IF names = <<>> THEN <<>> ELSE names[1] \o JoinCharsNoSep(Tail(names), sep)

\* names.join(sep)
RECURSIVE JoinChars(_, _)
JoinChars(names, sep) ==
    IF names = <<>> THEN <<>>
    ELSE IF Len(names) = 1 THEN names[1]
    ELSE names[1] \o <<sep>> \o JoinChars(Tail(names), sep)

\* the builtins of evaluate_call, the arguments evaluated
call_builtin(it, name, arg_vals) ==
    CASE name = s_print ->
            Out([it EXCEPT !.stdout =
                    @ \o JoinStr([i \in 1..Len(arg_vals) |->
                                     to_string(arg_vals[i], it.hash_order)], " ")
                      \o "\n"],
                Ok(VVoid))
      [] name = s_len ->
            IF arg_vals = <<>> THEN Out(it, Err("len() requires 1 argument"))
            ELSE IF arg_vals[1].t = "String"
                 THEN Out(it, Ok(VNumber(ByteLen(arg_vals[1].v))))
            ELSE IF arg_vals[1].t = "Array"
                 THEN Out(it, Ok(VNumber(Len(arg_vals[1].v))))
            ELSE Out(it, Err("len() requires string or array"))
      [] name = s_type ->
            IF arg_vals = <<>> THEN Out(it, Err("type() requires 1 argument"))
            ELSE Out(it, Ok(VString(TypeName(arg_vals[1]))))
      [] OTHER -> Out(it, Err("Unknown function: " \o Concat(name)))

\* the Index arm of evaluate_expr, operands evaluated.  `idx as usize` makes
\* a negative index larger than any length; chars().nth(idx).unwrap() panics
\* when idx is within the bytes and past the chars.
index_value(obj_val, idx_val) ==
    IF obj_val.t = "Array" /\ idx_val.t = "Number" THEN
        IF idx_val.v >= 0 /\ idx_val.v < Len(obj_val.v)
        THEN Ok(obj_val.v[idx_val.v + 1])
        ELSE Err("Index out of bounds")
    ELSE IF obj_val.t = "String" /\ idx_val.t = "Number" THEN
        IF idx_val.v >= 0 /\ idx_val.v < ByteLen(obj_val.v)
        THEN IF idx_val.v < Len(obj_val.v)
             THEN Ok(VString(<<obj_val.v[idx_val.v + 1]>>))
             ELSE Err("panic: Option::unwrap() on a None value")
        ELSE Err("Index out of bounds")
    ELSE Err("Invalid index operation")

\* which of the eight statement loops of execute_stmt test the flags after
\* each statement
ChecksFlags(kind) == kind \in {"IfThen", "IfElse", "While", "For", "Block"}

\* The `?` operator on an outcome [it, r]: an Err returns at once, an Ok goes
\* on with K.  With names a value for what follows.
Try(x, K(_)) == IF x.r.ok THEN K(x) ELSE x
With(v, K(_)) == K(v)

RECURSIVE execute_stmt(_, _, _)
RECURSIVE ExecSeq(_, _, _, _, _, _)
RECURSIVE WhileLoop(_, _, _, _, _)
RECURSIVE ForLoop(_, _, _, _, _)
RECURSIVE evaluate_expr(_, _)
RECURSIVE EvalList(_, _, _, _)
RECURSIVE EvalPairs(_, _, _, _)

\* `for e in es { values.push(self.evaluate_expr(e)?) }`
EvalList(it, es, i, acc) ==
    IF i > Len(es) THEN Out(it, Ok(acc))
    ELSE Try(evaluate_expr(it, es[i]),
             LAMBDA x : EvalList(x.it, es, i + 1, Append(acc, x.r.v)))

\* `for (key, e) in pairs { map.insert(key, self.evaluate_expr(e)?) }`
EvalPairs(it, pairs, i, map) ==
    IF i > Len(pairs) THEN Out(it, Ok(map))
    ELSE Try(evaluate_expr(it, pairs[i][2]),
             LAMBDA x : EvalPairs(x.it, pairs, i + 1, MapPut(map, pairs[i][1], x.r.v)))

\* Interpreter::evaluate_call
evaluate_call(it, func, args) ==
    IF func.k = "Identifier" THEN
        Try(EvalList(it, args, 1, <<>>),
            LAMBDA a : call_builtin(a.it, func.name, a.r.v))
    ELSE IF func.k = "Member" THEN
        IF /\ func.object.k = "Identifier"
           /\ func.object.name = s_writeutil
           /\ func.member = s_text
           /\ Len(args) = 1
        THEN Try(evaluate_expr(it, args[1]),
                 LAMBDA x : Out([x.it EXCEPT !.stdout =
                                    @ \o to_string(x.r.v, it.hash_order)],
                                Ok(VVoid)))
        ELSE Out(it, Err("Unknown method call"))
    ELSE Out(it, Err("Invalid function call"))

\* the Identifier arm of evaluate_expr, the variable looked up
identifier_value(it, name, got) ==
    IF got = NoneOpt
    THEN Out(it, Err("Undefined variable: " \o Concat(name)))
    ELSE Out(it, Ok(got[1]))

\* the Member arm of evaluate_expr, the object evaluated
member_value(obj_val, member) ==
    IF obj_val.t = "Object" THEN
        IF member \in DOMAIN obj_val.v
        THEN Ok(obj_val.v[member])
        ELSE Err("Member not found: " \o Concat(member))
    ELSE Err("Cannot access member on non-object")

\* Interpreter::evaluate_expr
evaluate_expr(it, e) ==
    CASE e.k = "Number" -> Out(it, Ok(VNumber(e.v)))
      [] e.k = "Float" -> Out(it, Ok(VFloat(e.v)))
      [] e.k = "String" -> Out(it, Ok(VString(e.v)))
      [] e.k = "Boolean" -> Out(it, Ok(VBoolean(e.v)))
      [] e.k = "Array" ->
            Try(EvalList(it, e.elems, 1, <<>>),
                LAMBDA x : Out(x.it, Ok(VArray(x.r.v))))
      [] e.k = "Object" ->
            Try(EvalPairs(it, e.pairs, 1, EmptyMap),
                LAMBDA x : Out(x.it, Ok(VObject(x.r.v))))
      [] e.k = "Identifier" -> identifier_value(it, e.name, get_variable(it, e.name))
      [] e.k = "Binary" ->
            Try(evaluate_expr(it, e.left),
                LAMBDA l : Try(evaluate_expr(l.it, e.right),
                LAMBDA r : Out(r.it, apply_binary_op(l.r.v, e.op, r.r.v))))
      [] e.k = "Unary" ->
            Try(evaluate_expr(it, e.expr),
                LAMBDA x : Out(x.it, apply_unary_op(e.op, x.r.v)))
      [] e.k = "Call" -> evaluate_call(it, e.func, e.args)
      [] e.k = "Index" ->
            Try(evaluate_expr(it, e.object),
                LAMBDA o : Try(evaluate_expr(o.it, e.index),
                LAMBDA i : Out(i.it, index_value(o.r.v, i.r.v))))
      [] e.k = "Member" ->
            Try(evaluate_expr(it, e.object),
                LAMBDA o : Out(o.it, member_value(o.r.v, e.member)))

\* One of the statement loops of execute_stmt, `for s in stmts { result =
\* self.execute_stmt(s)?; ... }`, from its i-th statement on; kind names the
\* loop (the arm it belongs to) and decides whether the flags are tested.
ExecSeq(it, stmts, i, path, kind, result) ==
    IF i > Len(stmts) THEN Out(it, Ok(result))
    ELSE Try(execute_stmt(it, stmts[i], Append(path, Step(kind, i))),
             LAMBDA x :
             With(Log(x.it, [e |-> "end", path |-> Append(path, Step(kind, i)),
                             flagged |-> Flagged(x.it)]),
             LAMBDA it1 :
                IF ChecksFlags(kind) /\ Flagged(it1)
                THEN Out(it1, Ok(x.r.v))
                ELSE ExecSeq(it1, stmts, i + 1, path, kind, x.r.v)))

\* what the While arm does once the body's loop has ended: TRUE to go round again
WhileAfterBody(it) ==
    IF it.break_flag THEN [it |-> [it EXCEPT !.break_flag = FALSE], again |-> FALSE]
    ELSE IF it.continue_flag
         THEN [it |-> [it EXCEPT !.continue_flag = FALSE], again |-> TRUE]
    ELSE IF it.return_value # NoneOpt THEN [it |-> it, again |-> FALSE]
    ELSE [it |-> it, again |-> TRUE]

\* the While arm of execute_stmt, n iterations done
WhileLoop(it, s, path, result, n) ==
    Try(evaluate_expr(Log(it, [e |-> "cond", path |-> path]), s.condition),
        LAMBDA c :
        IF ~is_truthy(c.r.v) THEN Out(c.it, Ok(result))
        ELSE IF n >= MaxIter THEN Cut(c.it)
        ELSE Try(ExecSeq(c.it, s.body, 1, path, "While", result),
                 LAMBDA b :
                 With(WhileAfterBody(b.it),
                 LAMBDA a :
                    IF a.again THEN WhileLoop(a.it, s, path, b.r.v, n + 1)
                    ELSE Out(a.it, Ok(b.r.v)))))

\* what the For arm does once the body's loop has ended: TRUE to go on to the
\* increment
ForAfterBody(it) ==
    IF it.break_flag THEN [it |-> [it EXCEPT !.break_flag = FALSE], again |-> FALSE]
    ELSE IF it.continue_flag
         THEN [it |-> [it EXCEPT !.continue_flag = FALSE], again |-> TRUE]
    ELSE IF it.return_value # NoneOpt THEN [it |-> it, again |-> FALSE]
    ELSE [it |-> it, again |-> TRUE]

\* an optional expression of the For arm: absent, it evaluates to dflt
EvalOpt(it, opt, dflt, ev, path) ==
    IF opt # NoneOpt
    THEN evaluate_expr(Log(it, [e |-> ev, path |-> path]), opt[1])
    ELSE Out(it, Ok(dflt))

\* the `loop` of the For arm of execute_stmt, n iterations done
ForLoop(it, s, path, result, n) ==
    Try(EvalOpt(it, s.condition, VBoolean(TRUE), "cond", path),
        LAMBDA c :
        IF ~is_truthy(c.r.v) THEN Out(c.it, Ok(result))
        ELSE IF n >= MaxIter THEN Cut(c.it)
        ELSE Try(ExecSeq(c.it, s.body, 1, path, "For", result),
                 LAMBDA b :
                 With(ForAfterBody(b.it),
                 LAMBDA a :
                    IF ~a.again THEN Out(a.it, Ok(b.r.v))
                    ELSE Try(EvalOpt(a.it, s.increment, VVoid, "inc", path),
                             LAMBDA inc : ForLoop(inc.it, s, path, b.r.v, n + 1)))))

\* the events of a Space: the names visible as it is entered and left
Entered(it, path) == Log(it, [e |-> "enter", path |-> path, vis |-> Visible(it)])
Exited(it, path) == Log(it, [e |-> "exit", path |-> path, vis |-> Visible(it)])

\* self.locals.push(..) and self.locals.pop()
Push(it) == [it EXCEPT !.locals = Append(@, EmptyMap)]
Pop(it) == [it EXCEPT !.locals = SubSeq(@, 1, Len(@) - 1)]

\* a faulty variant of the Space arm that pushes and pops no frame
SpaceNoFrame(it, s, path) ==
    Try(ExecSeq(Entered(it, path), s.body, 1, path, "Space", VVoid),
        LAMBDA b : Out(Exited(b.it, path), b.r))

\* the Space arm of execute_stmt
ExecSpace(it, s, path) ==
    Try(ExecSeq(Push(Entered(it, path)), s.body, 1, path, "Space", VVoid),
        LAMBDA b : Out(Exited(Pop(b.it), path), b.r))

\* the Return arm of execute_stmt, the value evaluated
Returning(it, v, path) ==
    Out(Log([it EXCEPT !.return_value = Some(v)],
            [e |-> "return", path |-> path, v |-> v]),
        Ok(v))

\* the event of a While or For arm returning `Ok(result)`: the loop statement
\* at path has completed, with break_flag and continue_flag as it leaves them
Left(x, path) ==
    Out(Log(x.it, [e |-> "left", path |-> path, brk |-> x.it.break_flag,
                   cont |-> x.it.continue_flag]),
        x.r)

\* Interpreter::execute_stmt; path is where the statement stands in the program
execute_stmt(it0, s, path) ==
    With(Log(it0, [e |-> "stmt", k |-> s.k, path |-> path,
                   cont |-> it0.continue_flag, depth |-> Len(it0.locals)]),
    LAMBDA it :
    CASE s.k = "Expression" -> evaluate_expr(it, s.expr)
      [] s.k = "Let" ->
            Try(evaluate_expr(it, s.value),
                LAMBDA x : Out(set_variable(x.it, s.name, x.r.v), Ok(VVoid)))
      [] s.k = "Assign" ->
            Try(evaluate_expr(it, s.value),
                LAMBDA x : Out(set_variable(x.it, s.target, x.r.v), Ok(x.r.v)))
      [] s.k = "If" ->
            Try(evaluate_expr(it, s.condition),
                LAMBDA c :
                IF is_truthy(c.r.v)
                THEN ExecSeq(c.it, s.then_branch, 1, path, "IfThen", VVoid)
                ELSE IF s.else_branch # NoneOpt
                THEN ExecSeq(c.it, s.else_branch[1], 1, path, "IfElse", VVoid)
                ELSE Out(c.it, Ok(VVoid)))
      [] s.k = "While" ->
            Try(WhileLoop(it, s, path, VVoid, 0), LAMBDA x : Left(x, path))
      [] s.k = "For" ->
            Try(IF s.init # NoneOpt
                THEN execute_stmt(it, s.init[1], Append(path, Step("ForInit", 1)))
                ELSE Out(it, Ok(VVoid)),
                LAMBDA i : Try(ForLoop(i.it, s, path, VVoid, 0),
                LAMBDA x : Left(x, path)))
      [] s.k = "FunctionDef" ->
            Out(set_variable(it, s.name,
                    VString(s_function_ \o s.name \o <<":">> \o JoinChars(s.params, ","))),
                Ok(VVoid))
      [] s.k = "Return" ->
            Try(IF s.value # NoneOpt THEN evaluate_expr(it, s.value[1])
                ELSE Out(it, Ok(VVoid)),
                LAMBDA x : Returning(x.it, x.r.v, path))
      [] s.k = "Break" -> Out([it EXCEPT !.break_flag = TRUE], Ok(VVoid))
      [] s.k = "Continue" -> Out([it EXCEPT !.continue_flag = TRUE], Ok(VVoid))
      [] s.k = "Space" -> ExecSpace(it, s, path)
      [] s.k = "Pub" -> ExecSeq(it, s.body, 1, path, "Pub", VVoid)
      [] s.k = "Subpub" -> ExecSeq(it, s.body, 1, path, "Subpub", VVoid)
      [] s.k = "Block" -> ExecSeq(it, s.stmts, 1, path, "Block", VVoid))

\* What interpret's loop does with a statement's outcome x: `?`, then the test
\* of return_value.
AfterTop(run, x) ==
    IF ~x.r.ok
    THEN [run EXCEPT !.interp = x.it, !.returned = Some(x.r),
                     !.mode = IF x.it.cut THEN "cut" ELSE "done"]
    ELSE IF x.it.return_value # NoneOpt
    THEN [run EXCEPT !.interp = [x.it EXCEPT !.return_value = NoneOpt],
                     !.last_value = x.r.v,
                     !.returned = Some(Ok(x.it.return_value[1])),
                     !.mode = "done"]
    ELSE [run EXCEPT !.interp = x.it, !.last_value = x.r.v, !.pc = @ + 1]

\* One iteration of the loop of Interpreter::interpret over the top-level
\* statements; run is [interp, pc, last_value, returned, mode].
InterpretStep(run, prog) ==
    AfterTop(run, execute_stmt(run.interp, prog[run.pc], <<Step("Top", run.pc)>>))

\* the end of Interpreter::interpret, its loop over: Ok(last_value)
InterpretReturn(run) ==
    [run EXCEPT !.returned = Some(Ok(run.last_value)), !.mode = "done"]

\* a fresh interpreter about to run interpret
NewRun(order) ==
    [interp |-> InterpreterNew(order), pc |-> 1, last_value |-> VVoid,
     returned |-> NoneOpt, mode |-> "eval"]

(***************************************************************************)
(* ast.rs: syntax trees                                                    *)
(***************************************************************************)
ENumber(n) == [k |-> "Number", v |-> n]
EFloat(f) == [k |-> "Float", v |-> f]
EString(cs) == [k |-> "String", v |-> cs]
EBoolean(b) == [k |-> "Boolean", v |-> b]
EIdentifier(name) == [k |-> "Identifier", name |-> name]
EArray(elems) == [k |-> "Array", elems |-> elems]
EObject(pairs) == [k |-> "Object", pairs |-> pairs]
EBinary(left, op, right) == [k |-> "Binary", left |-> left, op |-> op, right |-> right]
EUnary(op, expr) == [k |-> "Unary", op |-> op, expr |-> expr]
ECall(func, args) == [k |-> "Call", func |-> func, args |-> args]
EIndex(object, index) == [k |-> "Index", object |-> object, index |-> index]
EMember(object, member) == [k |-> "Member", object |-> object, member |-> member]

SExpression(expr) == [k |-> "Expression", expr |-> expr]
SLet(name, value) == [k |-> "Let", name |-> name, value |-> value]
SAssign(target, value) == [k |-> "Assign", target |-> target, value |-> value]
SIf(condition, then_branch, else_branch) ==
    [k |-> "If", condition |-> condition, then_branch |-> then_branch,
     else_branch |-> else_branch]
SWhile(condition, body) == [k |-> "While", condition |-> condition, body |-> body]
SFor(init, condition, increment, body) ==
    [k |-> "For", init |-> init, condition |-> condition, increment |-> increment,
     body |-> body]
SFunctionDef(name, params, body) ==
    [k |-> "FunctionDef", name |-> name, params |-> params, body |-> body]
SReturn(value) == [k |-> "Return", value |-> value]
SBreak == [k |-> "Break"]
SContinue == [k |-> "Continue"]
SSpace(name, body) == [k |-> "Space", name |-> name, body |-> body]
SPub(name, kind, body) == [k |-> "Pub", name |-> name, kind |-> kind, body |-> body]
SSubpub(name, compilation_type, body) ==
    [k |-> "Subpub", name |-> name, compilation_type |-> compilation_type,
     body |-> body]
SBlock(stmts) == [k |-> "Block", stmts |-> stmts]

\* the object keys of a tree: what a run's hash order ranges over
RECURSIVE ExprKeys(_)
RECURSIVE ExprsKeys(_)
ExprsKeys(es) == UNION {ExprKeys(es[i]) : i \in 1..Len(es)}
ExprKeys(e) ==
    CASE e.k = "Object" ->
            {e.pairs[i][1] : i \in 1..Len(e.pairs)}
                \cup UNION {ExprKeys(e.pairs[i][2]) : i \in 1..Len(e.pairs)}
      [] e.k = "Array" -> ExprsKeys(e.elems)
      [] e.k = "Binary" -> ExprKeys(e.left) \cup ExprKeys(e.right)
      [] e.k = "Unary" -> ExprKeys(e.expr)
      [] e.k = "Call" -> ExprKeys(e.func) \cup ExprsKeys(e.args)
      [] e.k = "Index" -> ExprKeys(e.object) \cup ExprKeys(e.index)
      [] e.k = "Member" -> ExprKeys(e.object)
      [] OTHER -> {}

RECURSIVE StmtKeys(_)
RECURSIVE StmtsKeys(_)
StmtsKeys(ss) == UNION {StmtKeys(ss[i]) : i \in 1..Len(ss)}
StmtKeys(s) ==
    CASE s.k = "Expression" -> ExprKeys(s.expr)
      [] s.k \in {"Let", "Assign"} -> ExprKeys(s.value)
      [] s.k = "If" ->
            ExprKeys(s.condition) \cup StmtsKeys(s.then_branch)
                \cup StmtsKeys(IF s.else_branch = <<>> THEN <<>> ELSE s.else_branch[1])
      [] s.k = "While" -> ExprKeys(s.condition) \cup StmtsKeys(s.body)
      [] s.k = "For" ->
            StmtsKeys(s.init) \cup ExprsKeys(s.condition) \cup ExprsKeys(s.increment)
                \cup StmtsKeys(s.body)
      [] s.k = "Return" -> ExprsKeys(s.value)
      [] s.k \in {"FunctionDef", "Space", "Pub", "Subpub"} -> StmtsKeys(s.body)
      [] s.k = "Block" -> StmtsKeys(s.stmts)
      [] OTHER -> {}

\* every order in which a hasher may hand out the keys of S
Orders(S) == {o \in [1..Cardinality(S) -> S] : \A i, j \in DOMAIN o : i # j => o[i] # o[j]}

(***************************************************************************)
(* parser.rs                                                               *)
(*                                                                         *)
(* The record p is struct Parser; a parsing method yields [p, r]: the      *)
(* parser it leaves and its Result.                                        *)
(***************************************************************************)
POut(p, r) == [p |-> p, r |-> r]

\* Parser { tokens, position: 0 } of Parser::new
ParserNew(toks) == [tokens |-> toks, position |-> 0]

\* Parser::current_token
current_token(p) ==
    IF p.position < Len(p.tokens) THEN p.tokens[p.position + 1] ELSE EofTok

\* Parser::advance
p_advance(p) ==
    IF p.position < Len(p.tokens) THEN [p EXCEPT !.position = @ + 1] ELSE p

\* {:?} of a str
DebugChar(ch) ==
    CASE ch = "\"" -> "\\\""
      [] ch = "\\" -> "\\\\"
      [] ch = "\n" -> "\\n"
      [] ch = "\t" -> "\\t"
      [] ch = "\r" -> "\\r"
      [] OTHER -> ch
DebugStr(cs) == "\"" \o JoinStr([i \in 1..Len(cs) |-> DebugChar(cs[i])], "") \o "\""

\* {:?} of an f64
FloatDebug(f) == IF f.e = 0 THEN FloatToString(f) \o ".0" ELSE FloatToString(f)

\* {:?} of a Token
TokDebug(tok) ==
    CASE tok.k \in {"Identifier", "String"} -> tok.k \o "(" \o DebugStr(tok.v) \o ")"
      [] tok.k = "Number" -> "Number(" \o ToString(tok.v) \o ")"
      [] tok.k = "Float" -> "Float(" \o FloatDebug(tok.v) \o ")"
      [] OTHER -> tok.k

\* Parser::expect: it compares the variants, not the payloads
expect(p, expected) ==
    IF current_token(p).k = expected.k
    THEN POut(p_advance(p), Ok(<<>>))
    ELSE POut(p, Err("Expected " \o TokDebug(expected) \o ", got "
                        \o TokDebug(current_token(p))))

\* consecutive `self.expect(..)?;` lines
RECURSIVE ExpectAll(_, _)
ExpectAll(p, toks) ==
    IF toks = <<>> THEN POut(p, Ok(<<>>))
    ELSE Try(expect(p, Head(toks)), LAMBDA x : ExpectAll(x.p, Tail(toks)))

\* `match self.current_token() { Token::Identifier(n) => { advance; n }
\* _ => return Err(msg) }`
ExpectName(p, msg) ==
    IF current_token(p).k = "Identifier"
    THEN POut(p_advance(p), Ok(current_token(p).v))
    ELSE POut(p, Err(msg))

\* `if self.current_token() == &Token::Comma { self.advance(); }`
SkipComma(p) == IF current_token(p).k = "Comma" THEN p_advance(p) ELSE p

RECURSIVE parse_statement(_)
RECURSIVE ParseBody(_, _)
RECURSIVE parse_expression(_)
RECURSIVE ParseList(_, _, _)
RECURSIVE parse_unary(_)
RECURSIVE PostfixLoop(_, _)
RECURSIVE LogicalOrFrom(_, _)
RECURSIVE LogicalAndFrom(_, _)
RECURSIVE EqualityFrom(_, _)
RECURSIVE ComparisonFrom(_, _)
RECURSIVE AdditiveFrom(_, _)
RECURSIVE MultiplicativeFrom(_, _)
RECURSIVE ParseParams(_, _)

\* `while current != close (&& current != Eof) { list.push(parse_expression()?);
\* skip a comma }`: close is the tokens that end the loop
ParseList(p, acc, close) ==
    IF current_token(p).k \in close THEN POut(p, Ok(acc))
    ELSE Try(parse_expression(p),
             LAMBDA x : ParseList(SkipComma(x.p), Append(acc, x.r.v), close))

\* the Token::Call arm of parse_primary, `call` consumed
PrimaryCall(p) ==
    Try(expect(p, Tok("Dot")),
    LAMBDA a :
    Try(ExpectName(a.p, "Expected function name after 'call.'"),
    LAMBDA name :
    Try(expect(name.p, Tok("LeftParen")),
    LAMBDA b :
    Try(ParseList(b.p, <<>>, {"RightParen"}),
    LAMBDA args :
    Try(expect(args.p, Tok("RightParen")),
    LAMBDA c : POut(c.p, Ok(ECall(EIdentifier(name.r.v), args.r.v))))))))

\* Parser::parse_primary
parse_primary(p) ==
    CASE current_token(p).k = "Number" ->
            POut(p_advance(p), Ok(ENumber(current_token(p).v)))
      [] current_token(p).k = "Float" ->
            POut(p_advance(p), Ok(EFloat(current_token(p).v)))
      [] current_token(p).k = "String" ->
            POut(p_advance(p), Ok(EString(current_token(p).v)))
      [] current_token(p).k = "Identifier" ->
            POut(p_advance(p), Ok(EIdentifier(current_token(p).v)))
      [] current_token(p).k = "LeftParen" ->
            Try(parse_expression(p_advance(p)),
            LAMBDA x :
            Try(expect(x.p, Tok("RightParen")),
            LAMBDA a : POut(a.p, x.r)))
      [] current_token(p).k = "LeftBracket" ->
            Try(ParseList(p_advance(p), <<>>, {"RightBracket", "Eof"}),
            LAMBDA elements :
            Try(expect(elements.p, Tok("RightBracket")),
            LAMBDA a : POut(a.p, Ok(EArray(elements.r.v)))))
      [] current_token(p).k = "Call" -> PrimaryCall(p_advance(p))
      [] OTHER -> POut(p, Err("Unexpected token: " \o TokDebug(current_token(p))))

\* the `loop` of parse_postfix, expr parsed so far
PostfixLoop(p, expr) ==
    CASE current_token(p).k = "LeftParen" ->
            Try(ParseList(p_advance(p), <<>>, {"RightParen", "Eof"}),
            LAMBDA args :
            Try(expect(args.p, Tok("RightParen")),
            LAMBDA a : PostfixLoop(a.p, ECall(expr, args.r.v))))
      [] current_token(p).k = "LeftBracket" ->
            Try(parse_expression(p_advance(p)),
            LAMBDA index :
            Try(expect(index.p, Tok("RightBracket")),
            LAMBDA a : PostfixLoop(a.p, EIndex(expr, index.r.v))))
      [] current_token(p).k = "Dot" ->
            Try(ExpectName(p_advance(p), "Expected member name after '.'"),
            LAMBDA member : PostfixLoop(member.p, EMember(expr, member.r.v)))
      [] OTHER -> POut(p, Ok(expr))

\* Parser::parse_postfix
parse_postfix(p) == Try(parse_primary(p), LAMBDA x : PostfixLoop(x.p, x.r.v))

\* Parser::parse_unary
parse_unary(p) ==
    CASE current_token(p).k = "Not" ->
            Try(parse_unary(p_advance(p)),
                LAMBDA x : POut(x.p, Ok(EUnary("Not", x.r.v))))
      [] current_token(p).k = "Minus" ->
            Try(parse_unary(p_advance(p)),
                LAMBDA x : POut(x.p, Ok(EUnary("Negate", x.r.v))))
      [] OTHER -> parse_postfix(p)

\* a faulty variant of the table below in which + and - bind tighter than
\* *, / and %
BinaryOpOfSwapped(level, tok) ==
    CASE level = "additive" /\ tok.k = "Star" -> Some("Multiply")
      [] level = "additive" /\ tok.k = "Slash" -> Some("Divide")
      [] level = "additive" /\ tok.k = "Percent" -> Some("Modulo")
      [] level = "multiplicative" /\ tok.k = "Plus" -> Some("Add")
      [] level = "multiplicative" /\ tok.k = "Minus" -> Some("Subtract")
      [] level = "comparison"
            /\ tok.k \in {"Less", "LessEqual", "Greater", "GreaterEqual"} -> Some(tok.k)
      [] level = "equality" /\ tok.k = "EqualEqual" -> Some("Equal")
      [] level = "equality" /\ tok.k = "NotEqual" -> Some("NotEqual")
      [] level = "logical_and" /\ tok.k = "And" -> Some("And")
      [] level = "logical_or" /\ tok.k = "Or" -> Some("Or")
      [] OTHER -> NoneOpt

\* the operator a token stands for at a level of the binary ladder, if any
BinaryOpOf(level, tok) ==
    CASE level = "multiplicative" /\ tok.k = "Star" -> Some("Multiply")
      [] level = "multiplicative" /\ tok.k = "Slash" -> Some("Divide")
      [] level = "multiplicative" /\ tok.k = "Percent" -> Some("Modulo")
      [] level = "additive" /\ tok.k = "Plus" -> Some("Add")
      [] level = "additive" /\ tok.k = "Minus" -> Some("Subtract")
      [] level = "comparison"
            /\ tok.k \in {"Less", "LessEqual", "Greater", "GreaterEqual"} -> Some(tok.k)
      [] level = "equality" /\ tok.k = "EqualEqual" -> Some("Equal")
      [] level = "equality" /\ tok.k = "NotEqual" -> Some("NotEqual")
      [] level = "logical_and" /\ tok.k = "And" -> Some("And")
      [] level = "logical_or" /\ tok.k = "Or" -> Some("Or")
      [] OTHER -> NoneOpt

\* `left = Expr::Binary { left, op, right }`: pending is the left operand and
\* the operator read before `right`, or nothing at the first operand
Combine(pending, right) ==
    IF pending = NoneOpt THEN right
    ELSE EBinary(pending[1].left, pending[1].op, right)

\* a faulty variant of the test below that goes round without taking the
\* operator
LevelNextNoAdvance(p, level, left) ==
    IF BinaryOpOf(level, current_token(p)) = NoneOpt
    THEN [again |-> FALSE, p |-> p, left |-> left]
    ELSE [again |-> TRUE, p |-> p,
          pending |-> Some([left |-> left, op |-> BinaryOpOf(level, current_token(p))[1]])]

\* the `while let Some(op) = ..` test of a level after an operand: go round
\* (advance, the operator pending) or return the operand
LevelNext(p, level, left) ==
    IF BinaryOpOf(level, current_token(p)) = NoneOpt
    THEN [again |-> FALSE, p |-> p, left |-> left]
    ELSE [again |-> TRUE, p |-> p_advance(p),
          pending |-> Some([left |-> left, op |-> BinaryOpOf(level, current_token(p))[1]])]

\* Parser::parse_multiplicative: From is its body from an operand on
MultiplicativeFrom(p, pending) ==
    Try(parse_unary(p),
    LAMBDA x :
    With(LevelNext(x.p, "multiplicative", Combine(pending, x.r.v)),
    LAMBDA n :
        IF n.again THEN MultiplicativeFrom(n.p, n.pending) ELSE POut(n.p, Ok(n.left))))
parse_multiplicative(p) == MultiplicativeFrom(p, NoneOpt)

\* Parser::parse_additive: From is its body from an operand on
AdditiveFrom(p, pending) ==
    Try(parse_multiplicative(p),
    LAMBDA x :
    With(LevelNext(x.p, "additive", Combine(pending, x.r.v)),
    LAMBDA n :
        IF n.again THEN AdditiveFrom(n.p, n.pending) ELSE POut(n.p, Ok(n.left))))
parse_additive(p) == AdditiveFrom(p, NoneOpt)

\* Parser::parse_comparison: From is its body from an operand on
ComparisonFrom(p, pending) ==
    Try(parse_additive(p),
    LAMBDA x :
    With(LevelNext(x.p, "comparison", Combine(pending, x.r.v)),
    LAMBDA n :
        IF n.again THEN ComparisonFrom(n.p, n.pending) ELSE POut(n.p, Ok(n.left))))
parse_comparison(p) == ComparisonFrom(p, NoneOpt)

\* Parser::parse_equality: From is its body from an operand on
EqualityFrom(p, pending) ==
    Try(parse_comparison(p),
    LAMBDA x :
    With(LevelNext(x.p, "equality", Combine(pending, x.r.v)),
    LAMBDA n :
        IF n.again THEN EqualityFrom(n.p, n.pending) ELSE POut(n.p, Ok(n.left))))
parse_equality(p) == EqualityFrom(p, NoneOpt)

\* Parser::parse_logical_and: From is its body from an operand on
LogicalAndFrom(p, pending) ==
    Try(parse_equality(p),
    LAMBDA x :
    With(LevelNext(x.p, "logical_and", Combine(pending, x.r.v)),
    LAMBDA n :
        IF n.again THEN LogicalAndFrom(n.p, n.pending) ELSE POut(n.p, Ok(n.left))))
parse_logical_and(p) == LogicalAndFrom(p, NoneOpt)

\* Parser::parse_logical_or: From is its body from an operand on
LogicalOrFrom(p, pending) ==
    Try(parse_logical_and(p),
    LAMBDA x :
    With(LevelNext(x.p, "logical_or", Combine(pending, x.r.v)),
    LAMBDA n :
        IF n.again THEN LogicalOrFrom(n.p, n.pending) ELSE POut(n.p, Ok(n.left))))
parse_logical_or(p) == LogicalOrFrom(p, NoneOpt)

\* Parser::parse_expression
parse_expression(p) == parse_logical_or(p)

\* `while current != RightBrace && current != Eof { body.push(parse_statement()?) }`
ParseBody(p, acc) ==
    IF current_token(p).k \in {"RightBrace", "Eof"} THEN POut(p, Ok(acc))
    ELSE Try(parse_statement(p), LAMBDA x : ParseBody(x.p, Append(acc, x.r.v)))

\* `{ body }`: expect(LeftBrace), the body's loop, expect(RightBrace)
BracedBody(p) ==
    Try(expect(p, Tok("LeftBrace")),
    LAMBDA a :
    Try(ParseBody(a.p, <<>>),
    LAMBDA body :
    Try(expect(body.p, Tok("RightBrace")),
    LAMBDA b : POut(b.p, body.r))))

s_name == <<"n", "a", "m", "e">>
s_com == <<"c", "o", "m">>
s_interpretation == <<"i", "n", "t", "e", "r", "p", "r", "e", "t", "a", "t", "i", "o", "n">>
s_compilation == <<"c", "o", "m", "p", "i", "l", "a", "t", "i", "o", "n">>
s_subpub_block == <<"s", "u", "b", "p", "u", "b", "_", "b", "l", "o", "c", "k">>

\* Parser::parse_space
parse_space(p) ==
    Try(expect(p, Tok("Space")),
    LAMBDA a :
    Try(ExpectName(a.p, "Expected identifier after 'space'"),
    LAMBDA name :
    Try(expect(name.p, TokV("Identifier", s_name)),
    LAMBDA b :
    Try(BracedBody(b.p),
    LAMBDA body :
    Try(ExpectAll(body.p, <<Tok("End"), Tok("Make"), Tok("Semicolon")>>),
    LAMBDA c : POut(c.p, Ok(SSpace(name.r.v, body.r.v))))))))

\* `if let Token::String(s) = current_token { advance; s } else { return Err }`
ExpectString(p) ==
    IF current_token(p).k = "String"
    THEN POut(p_advance(p), Ok(current_token(p).v))
    ELSE POut(p, Err("Expected string token"))

\* `kind = match current_token { Token::Semicolon => { advance; .. } _ => .. }`
SkipSemicolon(p) == IF current_token(p).k = "Semicolon" THEN p_advance(p) ELSE p

\* Parser::parse_pub
parse_pub(p) ==
    Try(ExpectAll(p, <<Tok("Pub"), Tok("Semicolon"), Tok("LeftBrace")>>),
    LAMBDA a :
    Try(expect(SkipSemicolon(a.p), TokV("Identifier", s_com)),
    LAMBDA b :
    Try(ExpectString(b.p),
    LAMBDA name :
    Try(BracedBody(name.p),
    LAMBDA body :
    Try(expect(body.p, Tok("DashArrow")),
    LAMBDA c : POut(c.p, Ok(SPub(name.r.v, s_interpretation, body.r.v))))))))

\* Parser::parse_subpub
parse_subpub(p) ==
    Try(ExpectAll(p, <<Tok("Subpub"), Tok("Semicolon")>>),
    LAMBDA a :
    Try(BracedBody(a.p),
    LAMBDA body : POut(body.p, Ok(SSubpub(s_subpub_block, s_compilation, body.r.v)))))

\* Parser::parse_let
parse_let(p) ==
    Try(expect(p, Tok("Let")),
    LAMBDA a :
    Try(ExpectName(a.p, "Expected identifier after 'let'"),
    LAMBDA name :
    Try(expect(name.p, Tok("Equal")),
    LAMBDA b :
    Try(parse_expression(b.p),
    LAMBDA value :
    Try(expect(value.p, Tok("Semicolon")),
    LAMBDA c : POut(c.p, Ok(SLet(name.r.v, value.r.v))))))))

\* the else branch of parse_if
ElseBranch(p) ==
    IF current_token(p).k = "Else"
    THEN Try(BracedBody(p_advance(p)), LAMBDA x : POut(x.p, Ok(Some(x.r.v))))
    ELSE POut(p, Ok(NoneOpt))

\* `( condition )`: expect(LeftParen), parse_expression, expect(RightParen)
ParenCondition(p) ==
    Try(expect(p, Tok("LeftParen")),
    LAMBDA a :
    Try(parse_expression(a.p),
    LAMBDA condition :
    Try(expect(condition.p, Tok("RightParen")),
    LAMBDA b : POut(b.p, condition.r))))

\* Parser::parse_if
parse_if(p) ==
    Try(expect(p, Tok("If")),
    LAMBDA a :
    Try(ParenCondition(a.p),
    LAMBDA condition :
    Try(BracedBody(condition.p),
    LAMBDA then_branch :
    Try(ElseBranch(then_branch.p),
    LAMBDA else_branch :
        POut(else_branch.p,
             Ok(SIf(condition.r.v, then_branch.r.v, else_branch.r.v)))))))

\* Parser::parse_while
parse_while(p) ==
    Try(expect(p, Tok("While")),
    LAMBDA a :
    Try(ParenCondition(a.p),
    LAMBDA condition :
    Try(BracedBody(condition.p),
    LAMBDA body : POut(body.p, Ok(SWhile(condition.r.v, body.r.v))))))

\* an optional expression: absent when the current token is `absent`
OptExpression(p, absent) ==
    IF current_token(p).k # absent
    THEN Try(parse_expression(p), LAMBDA x : POut(x.p, Ok(Some(x.r.v))))
    ELSE POut(p, Ok(NoneOpt))

\* the init of parse_for
ForInit(p) ==
    IF current_token(p).k # "Semicolon"
    THEN Try(parse_statement(p), LAMBDA x : POut(x.p, Ok(Some(x.r.v))))
    ELSE POut(p_advance(p), Ok(NoneOpt))

\* Parser::parse_for
parse_for(p) ==
    Try(ExpectAll(p, <<Tok("For"), Tok("LeftParen")>>),
    LAMBDA a :
    Try(ForInit(a.p),
    LAMBDA init :
    Try(OptExpression(init.p, "Semicolon"),
    LAMBDA condition :
    Try(expect(condition.p, Tok("Semicolon")),
    LAMBDA b :
    Try(OptExpression(b.p, "RightParen"),
    LAMBDA increment :
    Try(expect(increment.p, Tok("RightParen")),
    LAMBDA c :
    Try(BracedBody(c.p),
    LAMBDA body :
        POut(body.p,
             Ok(SFor(init.r.v, condition.r.v, increment.r.v, body.r.v))))))))))

\* Parser::parse_return
parse_return(p) ==
    Try(expect(p, Tok("Return")),
    LAMBDA a :
    Try(OptExpression(a.p, "Semicolon"),
    LAMBDA value :
    Try(expect(value.p, Tok("Semicolon")),
    LAMBDA b : POut(b.p, Ok(SReturn(value.r.v))))))

\* Parser::parse_block
parse_block(p) == Try(BracedBody(p), LAMBDA x : POut(x.p, Ok(SBlock(x.r.v))))

\* the parameter loop of parse_function_def
ParseParams(p, acc) ==
    IF current_token(p).k \in {"RightParen", "Eof"} THEN POut(p, Ok(acc))
    ELSE IF current_token(p).k = "Identifier"
    THEN ParseParams(SkipComma(p_advance(p)), Append(acc, current_token(p).v))
    ELSE POut(p, Err("Expected parameter name"))

\* Parser::parse_function_def
parse_function_def(p) ==
    Try(expect(p, Tok("Function")),
    LAMBDA a :
    Try(ExpectName(a.p, "Expected function name"),
    LAMBDA name :
    Try(expect(name.p, Tok("LeftParen")),
    LAMBDA b :
    Try(ParseParams(b.p, <<>>),
    LAMBDA params :
    Try(expect(params.p, Tok("RightParen")),
    LAMBDA c :
    Try(BracedBody(c.p),
    LAMBDA body :
        POut(body.p, Ok(SFunctionDef(name.r.v, params.r.v, body.r.v)))))))))

\* the Break and Continue arms of parse_statement
FlagStatement(p, stmt) ==
    Try(expect(p_advance(p), Tok("Semicolon")), LAMBDA a : POut(a.p, Ok(stmt)))

\* the last arm of parse_statement
ExpressionStatement(p) ==
    Try(parse_expression(p),
    LAMBDA expr :
    Try(expect(expr.p, Tok("Semicolon")),
    LAMBDA a : POut(a.p, Ok(SExpression(expr.r.v)))))

\* Parser::parse_statement
parse_statement(p) ==
    CASE current_token(p).k = "Space" -> parse_space(p)
      [] current_token(p).k = "Pub" -> parse_pub(p)
      [] current_token(p).k = "Subpub" -> parse_subpub(p)
      [] current_token(p).k = "Let" -> parse_let(p)
      [] current_token(p).k = "If" -> parse_if(p)
      [] current_token(p).k = "While" -> parse_while(p)
      [] current_token(p).k = "For" -> parse_for(p)
      [] current_token(p).k = "Return" -> parse_return(p)
      [] current_token(p).k = "Break" -> FlagStatement(p, SBreak)
      [] current_token(p).k = "Continue" -> FlagStatement(p, SContinue)
      [] current_token(p).k = "LeftBrace" -> parse_block(p)
      [] current_token(p).k = "Function" -> parse_function_def(p)
      [] OTHER -> ExpressionStatement(p)

(***************************************************************************)
(* The evaluator on program trees.  The trees are built from a few         *)
(* statements (Atoms) nested up to two deep in each of the eight statement *)
(* loops of execute_stmt, between `let i = 0;`, possibly a stray           *)
(* break or continue, and a closing print.                                 *)
(***************************************************************************)
n_i == <<"i">>
n_a == <<"a">>
n_b == <<"b">>
n_f == <<"f">>
n_p == <<"p">>
n_q == <<"q">>
n_s == <<"s">>

PrintStmt(cs) == SExpression(ECall(EIdentifier(s_print), <<EString(cs)>>))
Marker == PrintStmt(<<"m">>)
Bump == SAssign(n_i, EBinary(EIdentifier(n_i), "Add", ENumber(1)))
Below2 == EBinary(EIdentifier(n_i), "Less", ENumber(2))

FlagSetters == {SReturn(Some(ENumber(7))), SReturn(NoneOpt), SBreak, SContinue}
Atoms ==
    FlagSetters \cup
    {SLet(n_a, ENumber(1)),
     SAssign(n_b, ENumber(2)),
     Marker,
     SExpression(EBinary(ENumber(1), "Divide", ENumber(0))),
     SFunctionDef(n_f, <<n_p, n_q>>, <<PrintStmt(<<"f">>)>>)}

\* the eight statement loops around a body, the two loops bounded by i < 2
\* with the body before or after `i = i + 1`, and a For whose init is the
\* body's first statement
Wrap(body) ==
    {SIf(ENumber(1), body, NoneOpt),
     SIf(ENumber(0), <<>>, Some(body)),
     SWhile(Below2, body \o <<Bump>>),
     SWhile(Below2, <<Bump>> \o body),
     SFor(NoneOpt, Some(Below2), Some(ECall(EIdentifier(s_print), <<EString(<<"+">>)>>)),
          body \o <<Bump>>),
     SFor(Some(SLet(n_a, ENumber(0))), Some(Below2), NoneOpt, <<Bump>> \o body),
     SFor(Some(body[1]), NoneOpt, NoneOpt, <<Marker, SBreak>>),
     SBlock(body),
     SSpace(n_s, body),
     SPub(n_s, <<"i">>, body),
     SSubpub(n_s, <<"c">>, body)}

Bodies0 == {<<x>> : x \in Atoms} \cup {<<x, Marker>> : x \in FlagSetters}
Level1 == UNION {Wrap(b) : b \in Bodies0}
Bodies1 == {<<x>> : x \in Level1} \cup {<<x, Marker>> : x \in Level1}
Level2 == UNION {Wrap(b) : b \in Bodies1}

Prefixes ==
    {<<SLet(n_i, ENumber(0))>>,
     <<SLet(n_i, ENumber(0)), SBreak>>,
     <<SLet(n_i, ENumber(0)), SContinue>>}

EvalPrograms ==
    {pre \o <<main>> \o <<PrintStmt(<<"e", "n", "d">>)>> :
        pre \in Prefixes, main \in Atoms \cup Level1 \cup Level2}

(***************************************************************************)
(* compiler.rs                                                             *)
(*                                                                         *)
(* A BytecodeOp is a record with its variant's name in k; a jump holds its *)
(* operand, an index from 0 as in the code, in addr.  The record c is      *)
(* struct Compiler.                                                        *)
(***************************************************************************)
Op(kind) == [k |-> kind]
OpV(kind, v) == [k |-> kind, v |-> v]
JumpOp(kind, addr) == [k |-> kind, addr |-> addr]
CallOp(name, argc) == [k |-> "Call", name |-> name, argc |-> argc]

\* Compiler::new
CompilerNew == [bytecode |-> <<>>, functions |-> EmptyMap]

\* a faulty variant of the patch below that aims one past the target
PatchOff(bytecode, idx, target) ==
    [bytecode EXCEPT ![idx + 1] = [@ EXCEPT !.addr = target + 1]]

\* `if let BytecodeOp::JumpIfFalse(ref mut addr) = &mut self.bytecode[idx]
\* { *addr = target }`, and the same for Jump
Patch(bytecode, idx, target) ==
    [bytecode EXCEPT ![idx + 1] = [@ EXCEPT !.addr = target]]

\* a Result<(), String> with the compiler it leaves; OkUnit is `Ok(())`
COut(c, r) == [c |-> c, r |-> r]
OkUnit(c) == COut(c, Ok(<<>>))

\* self.bytecode.push(op)
Push1(c, op) == [c EXCEPT !.bytecode = Append(@, op)]

RECURSIVE compile_expr(_, _)
RECURSIVE CompileExprs(_, _, _)
RECURSIVE CompilePairs(_, _, _)
RECURSIVE compile_stmt(_, _)
RECURSIVE CompileStmts(_, _, _)

\* `for arg in args { self.compile_expr(arg)?; }`
CompileExprs(c, es, i) ==
    IF i > Len(es) THEN OkUnit(c)
    ELSE Try(compile_expr(c, es[i]), LAMBDA x : CompileExprs(x.c, es, i + 1))

\* `for (_, val_expr) in pairs { self.compile_expr(val_expr)?; }`
CompilePairs(c, pairs, i) ==
    IF i > Len(pairs) THEN OkUnit(c)
    ELSE Try(compile_expr(c, pairs[i][2]), LAMBDA x : CompilePairs(x.c, pairs, i + 1))

\* the Call arm of compile_expr, the arguments compiled
EmitCall(c, func, argc) ==
    IF func.k = "Identifier" THEN Push1(c, CallOp(func.name, argc)) ELSE c

\* Compiler::compile_expr
compile_expr(c, e) ==
    CASE e.k = "Number" -> OkUnit(Push1(c, OpV("PushNumber", e.v)))
      [] e.k = "Float" -> OkUnit(Push1(c, OpV("PushFloat", e.v)))
      [] e.k = "String" -> OkUnit(Push1(c, OpV("PushString", e.v)))
      [] e.k = "Boolean" -> OkUnit(Push1(c, OpV("PushBool", e.v)))
      [] e.k = "Identifier" -> OkUnit(Push1(c, OpV("GetGlobal", e.name)))
      [] e.k = "Binary" ->
            Try(compile_expr(c, e.left),
            LAMBDA x :
            Try(compile_expr(x.c, e.right),
            LAMBDA y : OkUnit(Push1(y.c, Op(e.op)))))
      [] e.k = "Unary" ->
            Try(compile_expr(c, e.expr), LAMBDA x : OkUnit(Push1(x.c, Op(e.op))))
      [] e.k = "Call" ->
            Try(CompileExprs(c, e.args, 1),
            LAMBDA x : OkUnit(EmitCall(x.c, e.func, Len(e.args))))
      [] e.k = "Array" ->
            Try(CompileExprs(c, e.elems, 1),
            LAMBDA x : OkUnit(Push1(x.c, OpV("ArrayCreate", Len(e.elems)))))
      [] e.k = "Object" ->
            Try(CompilePairs(c, e.pairs, 1),
            LAMBDA x : OkUnit(Push1(x.c, OpV("ObjectCreate", Len(e.pairs)))))
      [] e.k = "Index" ->
            Try(compile_expr(c, e.object),
            LAMBDA x :
            Try(compile_expr(x.c, e.index),
            LAMBDA y : OkUnit(Push1(y.c, Op("Index")))))
      [] e.k = "Member" ->
            Try(compile_expr(c, e.object),
            LAMBDA x : OkUnit(Push1(x.c, OpV("Member", e.member))))

\* `for s in stmts { self.compile_stmt(s)?; }`
CompileStmts(c, stmts, i) ==
    IF i > Len(stmts) THEN OkUnit(c)
    ELSE Try(compile_stmt(c, stmts[i]), LAMBDA x : CompileStmts(x.c, stmts, i + 1))

\* a faulty variant of the end of the If arm that leaves the Jump's placeholder
IfEndUnpatched(c, jump_idx) == c

\* the end of the If arm: the else branch compiled, the Jump at jump_idx patched
IfEnd(c, jump_idx) ==
    [c EXCEPT !.bytecode = Patch(@, jump_idx, Len(@))]

\* the If arm from the then branch's end: c holds the then branch
IfElse(c, s, jump_if_false_idx) ==
    With(Push1(c, JumpOp("Jump", 0)),
    LAMBDA c1 :
    With([c1 EXCEPT !.bytecode = Patch(@, jump_if_false_idx, Len(@))],
    LAMBDA c2 :
    Try(IF s.else_branch # NoneOpt THEN CompileStmts(c2, s.else_branch[1], 1)
        ELSE OkUnit(c2),
    LAMBDA z : OkUnit(IfEnd(z.c, Len(c.bytecode))))))

\* a faulty variant of the end of the loop arms whose Jump aims at the start of
\* the sequence
LoopEndToZero(c, loop_start, jump_if_false_idx) ==
    With(Push1(c, JumpOp("Jump", 0)),
    LAMBDA c1 : [c1 EXCEPT !.bytecode = Patch(@, jump_if_false_idx, Len(@))])

\* the end of the While and For arms: Jump(loop_start), the JumpIfFalse patched
LoopEnd(c, loop_start, jump_if_false_idx) ==
    With(Push1(c, JumpOp("Jump", loop_start)),
    LAMBDA c1 : [c1 EXCEPT !.bytecode = Patch(@, jump_if_false_idx, Len(@))])

\* the condition of the For arm
ForCondition(c, s) ==
    IF s.condition # NoneOpt THEN compile_expr(c, s.condition[1])
    ELSE OkUnit(Push1(c, OpV("PushBool", TRUE)))

\* the increment of the For arm
ForIncrement(c, s) ==
    IF s.increment # NoneOpt
    THEN Try(compile_expr(c, s.increment[1]), LAMBDA x : OkUnit(Push1(x.c, Op("Pop"))))
    ELSE OkUnit(c)

\* the For arm once init is compiled
ForFrom(c, s) ==
    Try(ForCondition(c, s),
    LAMBDA x :
    Try(CompileStmts(Push1(x.c, JumpOp("JumpIfFalse", 0)), s.body, 1),
    LAMBDA y :
    Try(ForIncrement(y.c, s),
    LAMBDA z : OkUnit(LoopEnd(z.c, Len(c.bytecode), Len(x.c.bytecode))))))

\* a faulty variant of the end of the FunctionDef arm that does not swap the
\* enclosing sequence back
FunctionEndNoSwap(c, f, name) ==
    [bytecode |-> Append(f.bytecode, Op("Return")),
     functions |-> MapPut(f.functions, name, Append(f.bytecode, Op("Return")))]

\* the FunctionDef arm once the body is compiled in f, c the compiler before it
FunctionEnd(c, f, name) ==
    [bytecode |-> c.bytecode,
     functions |-> MapPut(f.functions, name, Append(f.bytecode, Op("Return")))]

\* Compiler::compile_stmt
compile_stmt(c, s) ==
    CASE s.k = "Expression" ->
            Try(compile_expr(c, s.expr), LAMBDA x : OkUnit(Push1(x.c, Op("Pop"))))
      [] s.k = "Let" ->
            Try(compile_expr(c, s.value),
            LAMBDA x : OkUnit(Push1(x.c, OpV("SetLocal", s.name))))
      [] s.k = "Assign" ->
            Try(compile_expr(c, s.value),
            LAMBDA x : OkUnit(Push1(x.c, OpV("SetGlobal", s.target))))
      [] s.k = "If" ->
            Try(compile_expr(c, s.condition),
            LAMBDA x :
            Try(CompileStmts(Push1(x.c, JumpOp("JumpIfFalse", 0)), s.then_branch, 1),
            LAMBDA y : IfElse(y.c, s, Len(x.c.bytecode))))
      [] s.k = "While" ->
            Try(compile_expr(c, s.condition),
            LAMBDA x :
            Try(CompileStmts(Push1(x.c, JumpOp("JumpIfFalse", 0)), s.body, 1),
            LAMBDA y : OkUnit(LoopEnd(y.c, Len(c.bytecode), Len(x.c.bytecode)))))
      [] s.k = "For" ->
            Try(IF s.init # NoneOpt THEN compile_stmt(c, s.init[1]) ELSE OkUnit(c),
            LAMBDA x : ForFrom(x.c, s))
      [] s.k = "FunctionDef" ->
            Try(CompileStmts([c EXCEPT !.bytecode = <<>>], s.body, 1),
            LAMBDA f : OkUnit(FunctionEnd(c, f.c, s.name)))
      [] s.k = "Return" ->
            Try(IF s.value # NoneOpt THEN compile_expr(c, s.value[1]) ELSE OkUnit(c),
            LAMBDA x : OkUnit(Push1(x.c, Op("Return"))))
      [] s.k \in {"Break", "Continue"} -> OkUnit(c)
      [] s.k \in {"Space", "Pub", "Subpub"} -> CompileStmts(c, s.body, 1)
      [] s.k = "Block" -> CompileStmts(c, s.stmts, 1)

(***************************************************************************)
(* Values of the variables of the components that are not running.         *)
(***************************************************************************)
IdleLexer == LexerNew(<<>>)
IdleParser == [tokens |-> <<>>, position |-> 0]

(***************************************************************************)
(* The lexer on its own: every input over LexAlphabet up to MaxLen chars.  *)
(***************************************************************************)
LexAlphabet == {" ", "\n", "'", "&", "=", "1", ".", "a", "\"", "\\", "#"}

InitLex ==
    /\ mode = "lex"
    /\ \E chars \in SeqsUpTo(LexAlphabet, MaxLen) : lexer = LexerNew(chars)
    /\ tokens = <<>>
    /\ parser = IdleParser
    /\ statements = <<>>
    /\ parsed = <<>>
    /\ program = <<>>
    /\ interp = <<>>
    /\ pc = 0
    /\ last_value = <<>>
    /\ returned = <<>>
    /\ twin = <<>>
    /\ compiler = <<>>
    /\ unary = <<>>
    /\ proc = <<>>

LexStep ==
    /\ mode = "lex"
    /\ LET r == TokenizePass(lexer, tokens) IN
        /\ lexer' = r.lx
        /\ tokens' = r.tokens
        /\ mode' = IF r.finished THEN "lexed" ELSE "lex"
    /\ UNCHANGED <<parser, statements, parsed, program, interp, pc, last_value,
                   returned, twin, compiler, unary>>
    /\ UNCHANGED proc

NextLex == LexStep

SpecLex == InitLex /\ [][NextLex]_vars

\* C1: tokenize terminates and its result ends with Eof, which stands nowhere
\* else: the position never passes the end of the input, every pass of the
\* loop of next_token either returns Eof or leaves the position further on
\* (so at most Len(input) + 1 passes are made), no token before the last is
\* Eof, and the finished sequence ends with Eof.
C1_TokenizeEndsWithEof ==
    /\ lexer.position <= Len(lexer.input)
    /\ mode = "lex" =>
            LET r == TokenizePass(lexer, tokens) IN
            r.finished \/ r.lx.position > lexer.position
    /\ \A i \in 1..Len(tokens) :
            tokens[i] = EofTok <=> (mode = "lexed" /\ i = Len(tokens))
    /\ mode = "lexed" => tokens # <<>> /\ Last(tokens) = EofTok

\* an input with an unrecognized character between two tokens, tokenized
C1_Witness ==
    /\ mode = "lexed"
    /\ Len(lexer.input) = 3
    /\ lexer.input[2] = "#"
    /\ Len(tokens) = 3


(***************************************************************************)
(* The evaluator on its own: interpret on every tree of EvalPrograms.      *)
(***************************************************************************)
Run == [interp |-> interp, pc |-> pc, last_value |-> last_value,
        returned |-> returned, mode |-> mode]

InitEval ==
    /\ mode = "eval"
    /\ program \in EvalPrograms
    /\ \E order \in Orders(StmtsKeys(program)) : interp = InterpreterNew(order)
    /\ pc = 1
    /\ last_value = VVoid
    /\ returned = NoneOpt
    /\ lexer = IdleLexer
    /\ tokens = <<>>
    /\ parser = IdleParser
    /\ statements = <<>>
    /\ parsed = <<>>
    /\ twin = <<>>
    /\ compiler = <<>>
    /\ unary = <<>>
    /\ proc = <<>>

\* the body of interpret's loop, for the statement at pc
ExecTop ==
    /\ mode = "eval"
    /\ pc <= Len(program)
    /\ LET r == InterpretStep(Run, program) IN
        /\ interp' = r.interp
        /\ pc' = r.pc
        /\ last_value' = r.last_value
        /\ returned' = r.returned
        /\ mode' = r.mode
    /\ UNCHANGED <<lexer, tokens, parser, statements, parsed, program, twin,
                   compiler, unary>>
    /\ UNCHANGED proc

\* interpret's loop is over
ExecReturn ==
    /\ mode = "eval"
    /\ pc > Len(program)
    /\ LET r == InterpretReturn(Run) IN
        /\ returned' = r.returned
        /\ mode' = r.mode
    /\ UNCHANGED <<lexer, tokens, parser, statements, parsed, program, interp, pc,
                   last_value, twin, compiler, unary>>
    /\ UNCHANGED proc

NextEval == ExecTop \/ ExecReturn

SpecEval == InitEval /\ [][NextEval]_vars

\* the "enter" event that an "exit" event at j answers: the last one before j
\* at the same place
MatchingEnter(log, j) ==
    CHOOSE i \in 1..(j - 1) :
        /\ log[i].e = "enter"
        /\ log[i].path = log[j].path
        /\ \A m \in (i + 1)..(j - 1) :
                ~(log[m].e = "enter" /\ log[m].path = log[j].path)

\* C2: when a Space has executed to completion, the names visible from outside
\* it (those of globals and of each frame that was on the scope stack before
\* it) are the names that were visible when it was entered.
C2_SpaceLeavesOuterNames ==
    \A j \in 1..Len(interp.log) :
        interp.log[j].e = "exit" =>
            interp.log[j].vis = interp.log[MatchingEnter(interp.log, j)].vis

\* a Space completed whose body ran a Let and held a nested Space
C2_Witness ==
    \E j \in 1..Len(interp.log) :
        /\ interp.log[j].e = "exit"
        /\ \E m1, m2 \in (MatchingEnter(interp.log, j) + 1)..(j - 1) :
                /\ interp.log[m1].e = "stmt" /\ interp.log[m1].k = "Let"
                /\ interp.log[m2].e = "exit"

\* the place after path in the same statement sequence
NextSibling(path) ==
    [path EXCEPT ![Len(path)] = [@ EXCEPT !.i = @ + 1]]

\* C6: when a statement of a statement sequence (an If branch, a loop body, a
\* Block, the body of a Space, Pub or Subpub) completes with break_flag,
\* continue_flag or return_value set, the next statement of that sequence is
\* not executed.
C6_FlagAbortsSequence ==
    \A j \in 1..(Len(interp.log) - 1) :
        (interp.log[j].e = "end" /\ interp.log[j].flagged) =>
            ~(/\ interp.log[j + 1].e = "stmt"
              /\ interp.log[j + 1].path = NextSibling(interp.log[j].path))

\* a Return that stands inside If, While, For (its init or its body) and
\* Block only
PlainNesting(path) ==
    \A n \in 1..Len(path) :
        path[n].c \in {"Top", "IfThen", "IfElse", "While", "For", "ForInit", "Block"}

InLoop(path) == \E n \in 1..Len(path) : path[n].c \in {"While", "For"}

\* C7: once a Return nested in If, While, For and Block only has executed, no
\* top-level statement and no statement of a loop body starts, and interpret
\* returns Ok with the value of that Return and leaves return_value empty.
C7_ReturnEndsInterpret ==
    \A j \in 1..Len(interp.log) :
        (interp.log[j].e = "return" /\ PlainNesting(interp.log[j].path)) =>
            /\ \A m \in (j + 1)..Len(interp.log) :
                    interp.log[m].e = "stmt" =>
                        Len(interp.log[m].path) > 1 /\ ~InLoop(interp.log[m].path)
            /\ mode = "done" =>
                    /\ returned[1].ok
                    /\ returned[1].v.t = interp.log[j].v.t
                    /\ returned[1].v = interp.log[j].v
                    /\ interp.return_value = NoneOpt

\* an "enter" event that no "exit" event answers: the Space was left by an error
Unanswered(log, i) ==
    /\ log[i].e = "enter"
    /\ ~\E j \in (i + 1)..Len(log) : log[j].e = "exit" /\ log[j].path = log[i].path

\* C8: a Space leaves the scope stack at the depth it had on entry: on normal
\* completion, and when an error of its body propagates out of it (the error
\* then ends interpret, so for a Space entered on the empty stack the stack
\* is empty in the end).
C8_SpaceKeepsDepth ==
    /\ \A j \in 1..Len(interp.log) :
            interp.log[j].e = "exit" =>
                Len(interp.log[j].vis.l) = Len(interp.log[MatchingEnter(interp.log, j)].vis.l)
    /\ (mode = "done" /\ ~returned[1].ok) =>
            \A i \in 1..Len(interp.log) :
                (Unanswered(interp.log, i) /\ interp.log[i].vis.l = <<>>) =>
                    interp.locals = <<>>


(***************************************************************************)
(* Unary `!` on every kind of value: the program `!v;` run by a fresh      *)
(* evaluator whose globals bind v to the value under test (unary).         *)
(***************************************************************************)
n_v == <<"v">>
n_o == <<"o">>
n_x == <<"x">>
n_y == <<"y">>

\* the values under test, one set for each variant of Value
BooleanValues == {VBoolean(TRUE), VBoolean(FALSE)}
NumberValues == {VNumber(n) : n \in -2..2}
FloatValues == {VFloat(NormFloat(0, 0)), VFloat(NormFloat(15, 1)), VFloat(NormFloat(-5, 1))}
StringValues == {VString(cs) : cs \in SeqsUpTo({"a", "0", " "}, MaxElems)}
ElementValues == {VNumber(0), VNumber(1), VVoid}
ArrayValues == {VArray(a) : a \in SeqsUpTo(ElementValues, MaxElems)}
ObjectValues ==
    {VObject(m) : m \in UNION {[K -> ElementValues] : K \in SUBSET {n_x, n_y}}}

NotProgram == <<SExpression(EUnary("Not", EIdentifier(n_v)))>>

InitUnary ==
    /\ mode = "eval"
    /\ program = NotProgram
    /\ \/ unary \in BooleanValues
       \/ unary \in NumberValues
       \/ unary \in FloatValues
       \/ unary \in StringValues
       \/ unary \in ArrayValues
       \/ unary \in ObjectValues
       \/ unary = VVoid
    /\ interp = set_variable(InterpreterNew(<<n_x, n_y>>), n_v, unary)
    /\ pc = 1
    /\ last_value = VVoid
    /\ returned = NoneOpt
    /\ lexer = IdleLexer
    /\ tokens = <<>>
    /\ parser = IdleParser
    /\ statements = <<>>
    /\ parsed = <<>>
    /\ twin = <<>>
    /\ compiler = <<>>
    /\ proc = <<>>

SpecUnary == InitUnary /\ [][NextEval]_vars

\* the values the truthiness rule names falsey
Falsey(v) ==
    \/ v.t = "Boolean" /\ ~v.v
    \/ v.t = "Void"
    \/ v.t = "Number" /\ v.v = 0
    \/ v.t = "String" /\ v.v = <<>>
    \/ v.t = "Array" /\ v.v = <<>>
    \/ v.t = "Object" /\ v.v = EmptyMap

\* C5: `!v` succeeds for every value v and yields Boolean(TRUE) exactly when v
\* is Boolean(false), Void, Integer(0), the empty String, the empty Array or
\* the empty Object, and Boolean(FALSE) for every other value, every Float
\* included.
C5_NotNegatesTruthiness ==
    (mode = "done" /\ program = NotProgram) =>
        returned = Some(Ok(VBoolean(Falsey(unary))))

\* `!` applied to the float 0.0 has yielded false
C5_Witness ==
    /\ mode = "done"
    /\ program = NotProgram
    /\ unary.t = "Float"
    /\ unary.v = NormFloat(0, 0)
    /\ returned = Some(Ok(VBoolean(FALSE)))

(***************************************************************************)
(* The same tree evaluated twice: interp and twin are two fresh evaluators,*)
(* each with the hash order of its own run.                                *)
(***************************************************************************)
ObjXY == EObject(<<<<n_x, ENumber(1)>>, <<n_y, ENumber(2)>>>>)
PrintExpr(e) == SExpression(ECall(EIdentifier(s_print), <<e>>))

DetStatements ==
    {SLet(n_o, ObjXY),
     SLet(n_o, EObject(<<<<n_x, ENumber(1)>>>>)),
     SLet(n_o, ENumber(1)),
     PrintExpr(EIdentifier(n_o)),
     PrintExpr(EArray(<<EIdentifier(n_o)>>)),
     PrintExpr(EMember(EIdentifier(n_o), n_x)),
     SExpression(EIdentifier(n_o)),
     SReturn(Some(EIdentifier(n_o)))}

DetPrograms == SeqsUpTo(DetStatements, MaxElems)

InitDet ==
    /\ mode = "eval"
    /\ program \in DetPrograms
    /\ \E order \in Orders(StmtsKeys(program)) : interp = InterpreterNew(order)
    /\ \E order \in Orders(StmtsKeys(program)) : twin = NewRun(order)
    /\ pc = 1
    /\ last_value = VVoid
    /\ returned = NoneOpt
    /\ lexer = IdleLexer
    /\ tokens = <<>>
    /\ parser = IdleParser
    /\ statements = <<>>
    /\ parsed = <<>>
    /\ compiler = <<>>
    /\ unary = <<>>
    /\ proc = <<>>

\* the body of interpret's loop in the second evaluation
TwinTop ==
    /\ twin.mode = "eval"
    /\ twin.pc <= Len(program)
    /\ twin' = InterpretStep(twin, program)
    /\ UNCHANGED <<mode, lexer, tokens, parser, statements, parsed, program, interp,
                   pc, last_value, returned, compiler, unary>>
    /\ UNCHANGED proc

\* the second evaluation's loop is over
TwinReturn ==
    /\ twin.mode = "eval"
    /\ twin.pc > Len(program)
    /\ twin' = InterpretReturn(twin)
    /\ UNCHANGED <<mode, lexer, tokens, parser, statements, parsed, program, interp,
                   pc, last_value, returned, compiler, unary>>
    /\ UNCHANGED proc

NextDet == ExecTop \/ ExecReturn \/ TwinTop \/ TwinReturn

SpecDet == InitDet /\ [][NextDet]_vars

\* C4: two evaluations of the same tree, each by a fresh evaluator, end with
\* the same result and the same printed output.
C4_SameOutcomeTwice ==
    (mode = "done" /\ twin.mode = "done") =>
        returned = twin.returned /\ interp.stdout = twin.interp.stdout

(***************************************************************************)
(* The emitter on program trees: If, While, For and FunctionDef nested in  *)
(* each other up to three deep.                                            *)
(***************************************************************************)
Cond == EIdentifier(n_i)

EmitWrap(body) ==
    {SIf(Cond, body, NoneOpt),
     SIf(Cond, body, Some(body)),
     SIf(Cond, <<>>, Some(body)),
     SWhile(Cond, body),
     SFor(NoneOpt, NoneOpt, NoneOpt, body),
     SFor(Some(SLet(n_a, ENumber(0))), Some(Cond), Some(EIdentifier(n_a)), body),
     SFunctionDef(n_f, <<n_p>>, body)}

EmitBodies0 == {<<>>, <<Marker>>, <<SReturn(NoneOpt), SBreak>>}
EmitLevel1 == UNION {EmitWrap(b) : b \in EmitBodies0}
EmitBodies1 == {<<x>> : x \in EmitLevel1} \cup {<<Marker, x, Marker>> : x \in EmitLevel1}
EmitLevel2 == UNION {EmitWrap(b) : b \in EmitBodies1}
EmitBodies2 == {<<x>> : x \in EmitLevel2} \cup {<<Marker, x>> : x \in EmitLevel2}
EmitLevel3 == UNION {EmitWrap(b) : b \in EmitBodies2}

EmitPrograms ==
    {<<Marker, m>> : m \in EmitLevel1 \cup EmitLevel2 \cup EmitLevel3}
        \cup {<<m1, m2>> : m1 \in EmitLevel1, m2 \in EmitLevel1}

InitEmit ==
    /\ mode = "emit"
    /\ program \in EmitPrograms
    /\ compiler = CompilerNew
    /\ pc = 1
    /\ returned = NoneOpt
    /\ lexer = IdleLexer
    /\ tokens = <<>>
    /\ parser = IdleParser
    /\ statements = <<>>
    /\ parsed = <<>>
    /\ interp = <<>>
    /\ last_value = <<>>
    /\ twin = <<>>
    /\ unary = <<>>
    /\ proc = <<>>

\* the body of the loop of Compiler::compile, for the statement at pc:
\* `self.compile_stmt(stmt)?`
CompileTop ==
    /\ mode = "emit"
    /\ pc <= Len(program)
    /\ \E x \in {compile_stmt(compiler, program[pc])} :
            /\ compiler' = x.c
            /\ IF x.r.ok
               THEN pc' = pc + 1 /\ UNCHANGED <<mode, returned>>
               ELSE returned' = Some(x.r) /\ mode' = "emitted" /\ UNCHANGED pc
    /\ UNCHANGED <<lexer, tokens, parser, statements, parsed, program, interp,
                   last_value, twin, unary>>
    /\ UNCHANGED proc

\* the end of Compiler::compile: Ok(self.bytecode.clone())
CompileReturn ==
    /\ mode = "emit"
    /\ pc > Len(program)
    /\ returned' = Some(Ok(compiler.bytecode))
    /\ mode' = "emitted"
    /\ UNCHANGED <<lexer, tokens, parser, statements, parsed, program, interp, pc,
                   last_value, twin, compiler, unary>>
    /\ UNCHANGED proc

NextEmit == CompileTop \/ CompileReturn

SpecEmit == InitEmit /\ [][NextEmit]_vars

IsJump(op) == op.k \in {"Jump", "JumpIfFalse"}

\* every jump of the sequence code aims at an index of code or at its end
JumpsWithin(code) ==
    \A n \in 1..Len(code) :
        IsJump(code[n]) => code[n].addr >= 0 /\ code[n].addr <= Len(code)

\* C3: in the main sequence and in every sequence of the function table, the
\* operand of every Jump and JumpIfFalse is in [0, length of that sequence].
C3_JumpsStayInSequence ==
    /\ JumpsWithin(compiler.bytecode)
    /\ \A name \in DOMAIN compiler.functions : JumpsWithin(compiler.functions[name])
    /\ (mode = "emitted" /\ returned[1].ok) => JumpsWithin(returned[1].v)

\* a program compiled whose function holds a loop that jumps back to the
\* function's start, behind code of the main sequence
C3_Witness ==
    /\ mode = "emitted"
    /\ returned[1].ok
    /\ Len(returned[1].v) > 0
    /\ \E name \in DOMAIN compiler.functions :
            \E n \in 1..Len(compiler.functions[name]) :
                /\ compiler.functions[name][n].k = "Jump"
                /\ compiler.functions[name][n].addr = 0
                /\ \E m \in 1..(n - 1) :
                        /\ compiler.functions[name][m].k = "JumpIfFalse"
                        /\ compiler.functions[name][m].addr = n

(***************************************************************************)
(* The pipeline of execute_code: Parser::new (the lexer), Parser::parse,   *)
(* Interpreter::new and Interpreter::interpret, on source texts.           *)
(***************************************************************************)
\* let i = 0; while (i < 3) { print(i); i = i + 1; } print(i);
SourceLoopAssign ==
    <<"l", "e", "t", " ", "i", " ", "=", " ", "0", ";", " ", "w", "h", "i", "l", "e", " ",
      "(", "i", " ", "<", " ", "3", ")", " ", "{", " ", "p", "r", "i", "n", "t", "(", "i",
      ")", ";", " ", "i", " ", "=", " ", "i", " ", "+", " ", "1", ";", " ", "}", " ", "p",
      "r", "i", "n", "t", "(", "i", ")", ";">>

\* let o = {x: 1, y: 2}; print(o.x + o.y);
SourceObject ==
    <<"l", "e", "t", " ", "o", " ", "=", " ", "{", "x", ":", " ", "1", ",", " ", "y", ":",
      " ", "2", "}", ";", " ", "p", "r", "i", "n", "t", "(", "o", ".", "x", " ", "+", " ",
      "o", ".", "y", ")", ";">>

\* let i = 3; print(i + 1);
SourceLet ==
    <<"l", "e", "t", " ", "i", " ", "=", " ", "3", ";", " ", "p", "r", "i", "n", "t", "(",
      "i", " ", "+", " ", "1", ")", ";">>

\* let i = 0; while (i < 3) { print(i); break; } print(i);
SourceLoopBreak ==
    <<"l", "e", "t", " ", "i", " ", "=", " ", "0", ";", " ", "w", "h", "i", "l", "e", " ",
      "(", "i", " ", "<", " ", "3", ")", " ", "{", " ", "p", "r", "i", "n", "t", "(", "i",
      ")", ";", " ", "b", "r", "e", "a", "k", ";", " ", "}", " ", "p", "r", "i", "n", "t",
      "(", "i", ")", ";">>

\* space A name { let a = 1; print(a); } end make ;
SourceSpace ==
    <<"s", "p", "a", "c", "e", " ", "A", " ", "n", "a", "m", "e", " ", "{", " ", "l", "e",
      "t", " ", "a", " ", "=", " ", "1", ";", " ", "p", "r", "i", "n", "t", "(", "a", ")",
      ";", " ", "}", " ", "e", "n", "d", " ", "m", "a", "k", "e", " ", ";">>

\* writeutil.text(1);
SourceWriteText ==
    <<"w", "r", "i", "t", "e", "u", "t", "i", "l", ".", "t", "e", "x", "t", "(", "1", ")",
      ";">>

PipeSources ==
    {SourceLoopAssign, SourceObject, SourceLet, SourceLoopBreak, SourceSpace,
     SourceWriteText}

InitPipe ==
    /\ mode = "lex"
    /\ \E chars \in PipeSources : lexer = LexerNew(chars)
    /\ tokens = <<>>
    /\ parser = IdleParser
    /\ statements = <<>>
    /\ parsed = NoneOpt
    /\ program = <<>>
    /\ interp = <<>>
    /\ pc = 0
    /\ last_value = <<>>
    /\ returned = NoneOpt
    /\ twin = <<>>
    /\ compiler = <<>>
    /\ unary = <<>>
    /\ proc = <<>>

\* the end of Parser::new: the tokens go to a parser at position 0
ParserStart ==
    /\ mode = "lexed"
    /\ parser' = ParserNew(tokens)
    /\ mode' = "parse"
    /\ UNCHANGED <<lexer, tokens, statements, parsed, program, interp, pc, last_value,
                   returned, twin, compiler, unary>>
    /\ UNCHANGED proc

\* the body of the loop of Parser::parse; an Err ends parse and, by `?`,
\* execute_code
ParseStep ==
    /\ mode = "parse"
    /\ current_token(parser).k # "Eof"
    /\ \E x \in {parse_statement(parser)} :
        /\ parser' = x.p
        /\ IF x.r.ok
           THEN /\ statements' = Append(statements, x.r.v)
                /\ UNCHANGED <<parsed, returned, mode>>
           ELSE /\ parsed' = Some(x.r)
                /\ returned' = Some(x.r)
                /\ mode' = "done"
                /\ UNCHANGED statements
    /\ UNCHANGED <<lexer, tokens, program, interp, pc, last_value, twin, compiler,
                   unary>>
    /\ UNCHANGED proc

\* the end of Parser::parse, Ok(Program::new(statements)), and Interpreter::new
ParseReturn ==
    /\ mode = "parse"
    /\ current_token(parser).k = "Eof"
    /\ parsed' = Some(Ok(statements))
    /\ program' = statements
    /\ \E order \in Orders(StmtsKeys(statements)) : interp' = InterpreterNew(order)
    /\ pc' = 1
    /\ last_value' = VVoid
    /\ mode' = "eval"
    /\ UNCHANGED <<lexer, tokens, parser, statements, returned, twin, compiler, unary>>
    /\ UNCHANGED proc

NextPipe == LexStep \/ ParserStart \/ ParseStep \/ ParseReturn \/ ExecTop \/ ExecReturn

SpecPipe == InitPipe /\ [][NextPipe]_vars

\* C9: the pipeline on SourceLoopAssign parses `i = i + 1;` as an Assign and
\* prints 0, 1, 2, 3 on separate lines.
C9_LoopWithAssignPrintsFour ==
    (lexer.input = SourceLoopAssign /\ mode = "done") =>
        /\ parsed[1].ok
        /\ returned[1].ok
        /\ interp.stdout = "0\n1\n2\n3\n"

\* C10: the pipeline on SourceObject parses the object literal and prints 3.
C10_ObjectLiteralPrintsThree ==
    (lexer.input = SourceObject /\ mode = "done") =>
        /\ parsed[1].ok
        /\ returned[1].ok
        /\ interp.stdout = "3\n"

\* C16: the pipeline on SourceWriteText, a call written `writeutil.text(E);`,
\* succeeds: it prints the printable form of the value of E with no trailing
\* newline and yields Void.
C16_WriteTextRuns ==
    (lexer.input = SourceWriteText /\ mode = "done") =>
        /\ parsed[1].ok
        /\ returned[1].ok
        /\ returned[1].v = VVoid
        /\ interp.stdout = "1"


(***************************************************************************)
(* The parser on its own: Parser::parse on token sequences.  The sequences *)
(* of ExprTokens are written from expression trees (program holds the      *)
(* statement each was written from); the others hold no tree.              *)
(***************************************************************************)
\* the level of the precedence ladder an expression belongs to: 1 (or) to 6
\* (multiplicative), 7 unary, 8 postfix, 9 primary
BinaryLevel(op) ==
    CASE op = "Or" -> 1
      [] op = "And" -> 2
      [] op \in {"Equal", "NotEqual"} -> 3
      [] op \in {"Less", "LessEqual", "Greater", "GreaterEqual"} -> 4
      [] op \in {"Add", "Subtract"} -> 5
      [] op \in {"Multiply", "Divide", "Modulo"} -> 6
Prec(e) ==
    CASE e.k = "Binary" -> BinaryLevel(e.op)
      [] e.k = "Unary" -> 7
      [] e.k \in {"Call", "Index", "Member"} -> 8
      [] OTHER -> 9

\* the token an operator is written with
OpToken(op) ==
    CASE op = "Add" -> Tok("Plus")
      [] op = "Subtract" -> Tok("Minus")
      [] op = "Multiply" -> Tok("Star")
      [] op = "Divide" -> Tok("Slash")
      [] op = "Modulo" -> Tok("Percent")
      [] op = "Equal" -> Tok("EqualEqual")
      [] op = "Negate" -> Tok("Minus")
      [] OTHER -> Tok(op)

\* The tokens an expression tree is written with.  An operand stands in
\* parentheses when its level is below min, the lowest level the ladder
\* lets stand there bare; with all, every operand that is not a literal or
\* a name stands in parentheses.
RECURSIVE Render(_, _)
RECURSIVE RenderAt(_, _, _)
RECURSIVE RenderArgs(_, _, _)
RenderAt(e, min, all) ==
    IF Prec(e) < min \/ (all /\ Prec(e) < 9)
    THEN <<Tok("LeftParen")>> \o Render(e, all) \o <<Tok("RightParen")>>
    ELSE Render(e, all)
RenderArgs(args, i, all) ==
    IF i > Len(args) THEN <<>>
    ELSE (IF i > 1 THEN <<Tok("Comma")>> ELSE <<>>)
            \o RenderAt(args[i], 1, all) \o RenderArgs(args, i + 1, all)
Render(e, all) ==
    CASE e.k = "Binary" ->
            RenderAt(e.left, BinaryLevel(e.op), all) \o <<OpToken(e.op)>>
                \o RenderAt(e.right, BinaryLevel(e.op) + 1, all)
      [] e.k = "Unary" -> <<OpToken(e.op)>> \o RenderAt(e.expr, 7, all)
      [] e.k = "Member" ->
            RenderAt(e.object, 8, all)
                \o <<Tok("Dot"), TokV("Identifier", e.member)>>
      [] e.k = "Index" ->
            RenderAt(e.object, 8, all) \o <<Tok("LeftBracket")>>
                \o RenderAt(e.index, 1, all) \o <<Tok("RightBracket")>>
      [] e.k = "Call" ->
            RenderAt(e.func, 8, all) \o <<Tok("LeftParen")>>
                \o RenderArgs(e.args, 1, all) \o <<Tok("RightParen")>>
      [] e.k = "Number" -> <<TokV("Number", e.v)>>
      [] e.k = "Identifier" -> <<TokV("Identifier", e.name)>>

\* expression trees: a name and a number, and every operator of the ladder
\* over them, two deep
ExprLeaves == {EIdentifier(n_a), ENumber(1)}
LadderOps == {"Or", "And", "Equal", "Less", "Add", "Subtract", "Multiply"}
ExprWrap(S) ==
    {EBinary(l, op, r) : l \in S, op \in LadderOps, r \in S}
        \cup {EUnary(op, x) : op \in {"Not", "Negate"}, x \in S}
        \cup {EMember(x, n_b) : x \in S}
        \cup {EIndex(x, y) : x \in S, y \in S}
        \cup {ECall(x, <<>>) : x \in S}
        \cup {ECall(x, <<y>>) : x \in S, y \in S}
        \cup {ECall(x, <<y, EIdentifier(n_b)>>) : x \in S, y \in S}
Exprs1 == ExprLeaves \cup ExprWrap(ExprLeaves)
Exprs2 == ExprWrap(Exprs1)

\* the statement `e ;` written out, with the Eof that ends every token sequence
ExprTokens(e, all) == Render(e, all) \o <<Tok("Semicolon"), EofTok>>

\* Statements in tokens, one of each form with a mismatch to make: each is
\* taken whole, cut short before a token, or with one token replaced.
\*   let a = 1 ;                      space s name { a ; } end make ;
\*   function f ( p ) { }             a . b ;
\*   if ( a ) { } else { }            call . f ( 1 ) ;
\*   pub ; { com "s" { } EMDASH       for ( ; ; ) { }
\*   while ( a ) { return ; }         [ 1 , a ] ( ) ;
Id(name) == TokV("Identifier", name)
StmtBases ==
    << <<Tok("Let"), Id(n_a), Tok("Equal"), TokV("Number", 1), Tok("Semicolon")>>,
       <<Tok("Space"), Id(n_s), Id(s_name), Tok("LeftBrace"), Id(n_a), Tok("Semicolon"),
         Tok("RightBrace"), Tok("End"), Tok("Make"), Tok("Semicolon")>>,
       <<Tok("Function"), Id(n_f), Tok("LeftParen"), Id(n_p), Tok("RightParen"),
         Tok("LeftBrace"), Tok("RightBrace")>>,
       <<Id(n_a), Tok("Dot"), Id(n_b), Tok("Semicolon")>>,
       <<Tok("If"), Tok("LeftParen"), Id(n_a), Tok("RightParen"), Tok("LeftBrace"),
         Tok("RightBrace"), Tok("Else"), Tok("LeftBrace"), Tok("RightBrace")>>,
       <<Tok("Call"), Tok("Dot"), Id(n_f), Tok("LeftParen"), TokV("Number", 1),
         Tok("RightParen"), Tok("Semicolon")>>,
       <<Tok("Pub"), Tok("Semicolon"), Tok("LeftBrace"), Id(s_com), TokV("String", n_s),
         Tok("LeftBrace"), Tok("RightBrace"), Tok("DashArrow")>>,
       <<Tok("For"), Tok("LeftParen"), Tok("Semicolon"), Tok("Semicolon"),
         Tok("RightParen"), Tok("LeftBrace"), Tok("RightBrace")>>,
       <<Tok("While"), Tok("LeftParen"), Id(n_a), Tok("RightParen"), Tok("LeftBrace"),
         Tok("Return"), Tok("Semicolon"), Tok("RightBrace")>>,
       <<Tok("LeftBracket"), TokV("Number", 1), Tok("Comma"), Id(n_a),
         Tok("RightBracket"), Tok("LeftParen"), Tok("RightParen"), Tok("Semicolon")>> >>

\* the tokens put in the place of one
Substitutes ==
    <<TokV("Number", 1), Id(n_x), Tok("LeftBrace"), Tok("Semicolon"), Tok("RightParen")>>

\* base with the token at i replaced by the substitute numbered sub; cut
\* short before i when sub is 0; whole when i is 0
Mutated(base, i, sub) ==
    IF i = 0 THEN base \o <<EofTok>>
    ELSE IF sub = 0 THEN SubSeq(base, 1, i - 1) \o <<EofTok>>
    ELSE [base EXCEPT ![i] = Substitutes[sub]] \o <<EofTok>>

InitParse ==
    /\ mode = "lexed"
    /\ \/ \E e \in Exprs2, all \in BOOLEAN :
            /\ tokens = ExprTokens(e, all)
            /\ program = <<SExpression(e)>>
       \/ \E b \in 1..Len(StmtBases) :
            \E i \in 0..Len(StmtBases[b]), sub \in 0..Len(Substitutes) :
                /\ tokens = Mutated(StmtBases[b], i, sub)
                /\ program = <<>>
    /\ lexer = IdleLexer
    /\ parser = IdleParser
    /\ statements = <<>>
    /\ parsed = NoneOpt
    /\ interp = <<>>
    /\ pc = 0
    /\ last_value = <<>>
    /\ returned = NoneOpt
    /\ twin = <<>>
    /\ compiler = <<>>
    /\ unary = <<>>
    /\ proc = <<>>

\* the end of Parser::parse: Ok(Program::new(statements))
ParseOk ==
    /\ mode = "parse"
    /\ current_token(parser).k = "Eof"
    /\ parsed' = Some(Ok(statements))
    /\ mode' = "parsed"
    /\ UNCHANGED <<lexer, tokens, parser, statements, program, interp, pc,
                   last_value, returned, twin, compiler, unary>>
    /\ UNCHANGED proc

NextParse == ParserStart \/ ParseStep \/ ParseOk

SpecParse == InitParse /\ [][NextParse]_vars

\* C11: the parser builds, from the tokens an expression tree is written
\* with (parentheses only where the precedence ladder or < and < equality <
\* comparison < additive < multiplicative < unary < postfix < primary needs
\* them, binary operators of one level grouping to the left, or around every
\* operand), that tree.
C11_ParseFollowsLadder ==
    (program # <<>> /\ mode \in {"parsed", "done"}) =>
        /\ parsed[1].ok
        /\ parsed[1].v = program

\* parsed: a product whose right operand is a sum (written in parentheses)
\* and whose left operand is a negation
C11_Witness ==
    /\ mode = "parsed"
    /\ parsed[1].ok
    /\ program # <<>>
    /\ program[1].expr.k = "Binary"
    /\ program[1].expr.op = "Multiply"
    /\ program[1].expr.right.k = "Binary"
    /\ program[1].expr.right.op = "Add"
    /\ program[1].expr.left.k = "Unary"
    /\ program[1].expr.left.op = "Negate"
    /\ Tok("LeftParen") \in {tokens[i] : i \in 1..Len(tokens)}

\* the names of the variants of Token, and the two identifiers expect is
\* given with their text
TokenKinds ==
    {"Space", "End", "Make", "Inspace", "Call", "Text", "Pub", "Subpub", "Function",
     "Return", "If", "Else", "While", "For", "Break", "Continue", "Let", "Identifier",
     "String", "Number", "Float", "Plus", "Minus", "Star", "Slash", "Percent", "Equal",
     "EqualEqual", "NotEqual", "Less", "LessEqual", "Greater", "GreaterEqual", "And",
     "Or", "Not", "LeftParen", "RightParen", "LeftBrace", "RightBrace", "LeftBracket",
     "RightBracket", "Semicolon", "Colon", "Comma", "Dot", "Arrow", "DashArrow", "Eof"}
        \cup {TokDebug(Id(s_name)), TokDebug(Id(s_com))}

\* C12: a failed parse returns no Program and one diagnostic, of the form
\* `Expected <token-kind>, got <token>`, whose token is the first one that
\* does not fit the grammar (the one the parser stopped at).
C12_DiagnosticForm ==
    (mode = "done" /\ ~parsed[1].ok) =>
        \E kind \in TokenKinds :
            parsed[1].err = "Expected " \o kind \o ", got " \o TokDebug(current_token(parser))

\* C13: a token sequence that begins with `space` is parsed to a Space
\* statement only when its third token is the identifier with the text
\* `name`; with any other token there the parse fails.
C13_SpaceNeedsNameKeyword ==
    (/\ mode \in {"parse", "parsed", "done"}
     /\ tokens[1].k = "Space"
     /\ ~(Len(tokens) >= 3 /\ tokens[3].k = "Identifier" /\ tokens[3].v = s_name)) =>
        /\ \A n \in 1..Len(statements) : statements[n].k # "Space"
        /\ mode \in {"parsed", "done"} => ~parsed[1].ok

(***************************************************************************)
(* Indexing and the builtins len and type, applied to values of every      *)
(* variant: v and w are globals, the program is one expression statement.  *)
(***************************************************************************)
n_w == <<"w">>

\* strings whose byte length exceeds their scalar count, and plain ones
MultiByteStrings ==
    {VString(cs) : cs \in SeqsUpTo({"a", "E_ACUTE", "EMDASH"}, MaxElems)}
\* indices below zero, inside and beyond the byte length of every string
IndexNumbers == {VNumber(n) : n \in -2..(3 * MaxElems)}

\* v[w];
IndexProgram == <<SExpression(EIndex(EIdentifier(n_v), EIdentifier(n_w)))>>
\* name(); name(v); name(v, w); name(v, w, v);
BuiltinCall(name, argc) ==
    <<SExpression(ECall(EIdentifier(name),
        SubSeq(<<EIdentifier(n_v), EIdentifier(n_w), EIdentifier(n_v)>>, 1, argc)))>>
CallPrograms ==
    {IndexProgram} \cup {BuiltinCall(name, argc) : name \in {s_len, s_type}, argc \in 0..3}

InitCall ==
    /\ mode = "eval"
    /\ program \in CallPrograms
    /\ \/ unary \in BooleanValues
       \/ unary \in NumberValues
       \/ unary \in FloatValues
       \/ unary \in MultiByteStrings
       \/ unary \in ArrayValues
       \/ unary \in ObjectValues
       \/ unary = VVoid
    /\ \E w \in IndexNumbers :
        interp = set_variable(set_variable(InterpreterNew(<<n_x, n_y>>), n_v, unary),
                              n_w, w)
    /\ pc = 1
    /\ last_value = VVoid
    /\ returned = NoneOpt
    /\ lexer = IdleLexer
    /\ tokens = <<>>
    /\ parser = IdleParser
    /\ statements = <<>>
    /\ parsed = <<>>
    /\ twin = <<>>
    /\ compiler = <<>>
    /\ proc = <<>>

SpecCall == InitCall /\ [][NextEval]_vars

\* the integer bound to w
IndexArg == interp.globals[n_w].v

\* C14: for every string s and every integer i, s[i] yields the one-character
\* string holding the scalar at offset i of s when 0 <= i < number of scalars
\* of s, and otherwise fails with the error value "Index out of bounds"; the
\* evaluator never aborts.
C14_StringIndexByScalar ==
    (mode = "done" /\ program = IndexProgram /\ unary.t = "String") =>
        IF 0 <= IndexArg /\ IndexArg < Len(unary.v)
        THEN /\ returned[1].ok
             /\ returned[1].v.t = "String"
             /\ returned[1].v.v = <<unary.v[IndexArg + 1]>>
        ELSE /\ ~returned[1].ok
             /\ returned[1].err = "Index out of bounds"

\* C15: len and type called with zero, two or more arguments fail with
\* "len() requires 1 argument" resp. "type() requires 1 argument"; with
\* exactly one argument len returns the byte length of a String or the
\* element count of an Array and fails for every other variant.
C15_BuiltinArity ==
    \A name \in {s_len, s_type}, argc \in 0..3 :
        (mode = "done" /\ program = BuiltinCall(name, argc)) =>
            IF argc # 1
            THEN /\ ~returned[1].ok
                 /\ returned[1].err = Concat(name) \o "() requires 1 argument"
            ELSE name = s_len =>
                    CASE unary.t = "String" ->
                            /\ returned[1].ok
                            /\ returned[1].v.t = "Number"
                            /\ returned[1].v.v = ByteLen(unary.v)
                      [] unary.t = "Array" ->
                            /\ returned[1].ok
                            /\ returned[1].v.t = "Number"
                            /\ returned[1].v.v = Len(unary.v)
                      [] OTHER -> ~returned[1].ok

(***************************************************************************)
(* Function definitions and later calls by name: the definition stands at  *)
(* the top level or in a Space, the call follows it.                       *)
(***************************************************************************)
BuiltinNames == {s_print, s_len, s_type}
FnNames == {n_f} \cup BuiltinNames
FnParams == SeqsUpTo({n_p, n_q}, MaxElems)
FnBody == <<PrintStmt(<<"b">>)>>

\* print("x"), an argument whose evaluation shows on stdout, and 1 / 0, one
\* whose evaluation fails
ArgPrint == ECall(EIdentifier(s_print), <<EString(<<"x">>)>>)
ArgFails == EBinary(ENumber(1), "Divide", ENumber(0))
FnArgs == {<<>>, <<ArgPrint>>, <<ArgPrint, ArgPrint>>, <<ArgPrint, ArgFails>>}

\* function name(params) { print("b"); }  name(args);
FnAtTop(name, params, args) ==
    <<SFunctionDef(name, params, FnBody), SExpression(ECall(EIdentifier(name), args))>>
\* space s name { function name(params) { print("b"); } print(name); } end make ;
\* name(args);
FnInSpace(name, params, args) ==
    <<SSpace(n_s, <<SFunctionDef(name, params, FnBody),
                    SExpression(ECall(EIdentifier(s_print), <<EIdentifier(name)>>))>>),
      SExpression(ECall(EIdentifier(name), args))>>
FnPrograms ==
    {FnAtTop(name, params, args) : name \in FnNames, params \in FnParams, args \in FnArgs}
    \cup
    {FnInSpace(name, params, args) : name \in FnNames, params \in FnParams, args \in FnArgs}

InitFn ==
    /\ mode = "eval"
    /\ program \in FnPrograms
    /\ interp = InterpreterNew(<<>>)
    /\ pc = 1
    /\ last_value = VVoid
    /\ returned = NoneOpt
    /\ lexer = IdleLexer
    /\ tokens = <<>>
    /\ parser = IdleParser
    /\ statements = <<>>
    /\ parsed = <<>>
    /\ twin = <<>>
    /\ compiler = <<>>
    /\ unary = <<>>
    /\ proc = <<>>

SpecFn == InitFn /\ [][NextEval]_vars

\* the definition and the call of the program, and what they spell
FnInFrame == program[1].k = "Space"
FnDef == IF FnInFrame THEN program[1].body[1] ELSE program[1]
FnCallArgs == program[2].expr.args
FnString == "function:" \o Concat(FnDef.name) \o ":" \o
            JoinStr([i \in 1..Len(FnDef.params) |-> Concat(FnDef.params[i])], ",")
\* what the Space shape has printed once its Space is over
FnPrinted == IF FnInFrame THEN FnString \o "\n" ELSE ""
\* what evaluating the arguments prints
ArgsPrinted ==
    CASE FnCallArgs = <<>> -> ""
      [] FnCallArgs = <<ArgPrint>> -> "x\n"
      [] FnCallArgs = <<ArgPrint, ArgPrint>> -> "x\nx\n"
      [] FnCallArgs = <<ArgPrint, ArgFails>> -> "x\n"
FnDefined == pc >= 2
FnCalled == mode = "done" \/ pc >= 3

\* C17, for names other than print, len and type: once the FunctionDef has
\* executed, the name is bound in the current scope (the Space's frame, gone
\* with the Space, or the globals) to the string function:f:p1,...,pn, no
\* statement of the body has executed, and the later call evaluates its
\* arguments and then fails with "Unknown function: f".
C17_FunctionDefBindsString ==
    /\ (FnDefined /\ ~FnInFrame) =>
            /\ FnDef.name \in DOMAIN interp.globals
            /\ interp.globals[FnDef.name].t = "String"
            /\ Concat(interp.globals[FnDef.name].v) = FnString
    /\ (FnDefined /\ FnInFrame) =>
            /\ interp.globals = InterpreterNew(<<>>).globals
            /\ interp.locals = <<>>
    /\ (FnDefined /\ ~FnCalled) => interp.stdout = FnPrinted
    /\ (FnCalled /\ FnDef.name \notin BuiltinNames) =>
            /\ mode = "done"
            /\ ~returned[1].ok
            /\ returned[1].err = IF FnCallArgs = <<ArgPrint, ArgFails>>
                                 THEN "Division by zero"
                                 ELSE "Unknown function: " \o Concat(FnDef.name)
            /\ interp.stdout = FnPrinted \o ArgsPrinted

\* f with two parameters, defined in a Space, has been called with two
\* arguments
C17_Witness ==
    /\ mode = "done"
    /\ program = FnInSpace(n_f, <<n_p, n_q>>, <<ArgPrint, ArgPrint>>)
    /\ interp.stdout = "function:f:p,q\nx\nx\n"
    /\ returned = Some(Err("Unknown function: f"))

\* C17 as stated, for every name: a call of the defined name, its arguments
\* evaluated, fails with "Unknown function: f".
C17_EveryLaterCallFails ==
    (FnCalled /\ FnCallArgs # <<ArgPrint, ArgFails>>) =>
        /\ mode = "done"
        /\ ~returned[1].ok
        /\ returned[1].err = "Unknown function: " \o Concat(FnDef.name)

(***************************************************************************)
(* The value interpret returns: programs of up to MaxElems top-level       *)
(* statements of every kind that yields a value.                           *)
(***************************************************************************)
LastStmts ==
    {SExpression(ENumber(1)),
     SExpression(ENumber(2)),
     SLet(n_a, ENumber(3)),
     SAssign(n_a, ENumber(4)),
     SIf(ENumber(1), <<SExpression(ENumber(5))>>, NoneOpt),
     SBlock(<<SExpression(ENumber(6))>>),
     SReturn(Some(ENumber(7))),
     SExpression(EBinary(ENumber(1), "Divide", ENumber(0)))}
LastPrograms == SeqsUpTo(LastStmts, MaxElems)

InitLast ==
    /\ mode = "eval"
    /\ program \in LastPrograms
    /\ interp = InterpreterNew(<<>>)
    /\ pc = 1
    /\ last_value = VVoid
    /\ returned = NoneOpt
    /\ lexer = IdleLexer
    /\ tokens = <<>>
    /\ parser = IdleParser
    /\ statements = <<>>
    /\ parsed = <<>>
    /\ twin = <<>>
    /\ compiler = <<>>
    /\ unary = <<>>
    /\ proc = <<>>

SpecLast == InitLast /\ [][NextEval]_vars

\* the top-level expression statements of the program
TopExpressions == {n \in 1..Len(program) : program[n].k = "Expression"}
LastTopExpression == CHOOSE n \in TopExpressions : \A m \in TopExpressions : m <= n
\* the run has ended without an error and without a Return executed
RanPlain ==
    /\ mode = "done"
    /\ returned[1].ok
    /\ \A n \in 1..Len(interp.log) : interp.log[n].e # "return"

\* C18: for every program that runs without error and without executing a
\* Return, interpret returns the value of the last top-level expression
\* statement, and Void when the program has no top-level expression statement.
C18_ValueOfLastExpression ==
    RanPlain =>
        IF TopExpressions = {}
        THEN returned[1].v = VVoid
        ELSE /\ returned[1].v.t = "Number"
             /\ returned[1].v.v = program[LastTopExpression].expr.v

(***************************************************************************)
(* main.rs: the command-line process.  proc holds the arguments after the  *)
(* program's name, whether the named file can be read and what it holds,   *)
(* whether the output file can be written, the last line the process wrote *)
(* and its exit status once it has ended.  The lib and repl commands read  *)
(* no source file and are left out.                                        *)
(***************************************************************************)
\* 1 / 0;
SourceDivZero == <<"1", " ", "/", " ", "0", ";">>

MainArgs ==
    {<<>>, <<"run">>, <<"run", "in.hio">>, <<"compile">>, <<"compile", "in.hio">>,
     <<"compile", "in.hio", "out.hio">>, <<"version">>, <<"help">>, <<"bogus">>}
MainSources == {SourceLet, SourceWriteText, SourceDivZero, SourceSpace}

InitMain ==
    /\ mode = "main"
    /\ \E args \in MainArgs, readable \in BOOLEAN, writable \in BOOLEAN,
          content \in MainSources :
            proc = [args |-> args, readable |-> readable, writable |-> writable,
                    content |-> content, wrote |-> "", status |-> NoneOpt]
    /\ lexer = IdleLexer
    /\ tokens = <<>>
    /\ parser = IdleParser
    /\ statements = <<>>
    /\ parsed = NoneOpt
    /\ program = <<>>
    /\ interp = <<>>
    /\ pc = 0
    /\ last_value = <<>>
    /\ returned = NoneOpt
    /\ twin = <<>>
    /\ compiler = <<>>
    /\ unary = <<>>

\* args[1], the command
Command == IF proc.args = <<>> THEN "" ELSE proc.args[1]

\* main returns, or the process dies of a panic: the line it wrote last and
\* the exit status
Exits(p, line, status) == [p EXCEPT !.wrote = line, !.status = Some(status)]

\* a panic unwinds main: the runtime ends the process with status 101
Panicked(r) == ~r.ok /\ r.err = "panic: Option::unwrap() on a None value"

\* fn main, up to the end of fs::read_to_string in run_file and compile_file
MainDispatch ==
    /\ mode = "main"
    /\ IF proc.args # <<>> /\ proc.args[1] \in {"run", "compile"}
          /\ Len(proc.args) >= 2 /\ proc.readable
       THEN /\ lexer' = LexerNew(proc.content)
            /\ mode' = "lex"
            /\ UNCHANGED proc
       ELSE /\ mode' = "exited"
            /\ UNCHANGED lexer
            /\ proc' =
                CASE proc.args = <<>> -> Exits(proc, "Hiolang Compiler/Interpreter v0.1.0 ...", 0)
                  [] proc.args[1] = "run" /\ Len(proc.args) < 2 ->
                        Exits(proc, "Usage: hiolang run <file>", 0)
                  [] proc.args[1] = "compile" /\ Len(proc.args) < 2 ->
                        Exits(proc, "Usage: hiolang compile <file> [output]", 0)
                  [] proc.args[1] \in {"run", "compile"} ->
                        Exits(proc, "Failed to read file " \o proc.args[2] \o ": ...", 0)
                  [] proc.args[1] = "version" -> Exits(proc, "Hiolang v0.1.0", 0)
                  [] proc.args[1] = "help" ->
                        Exits(proc, "Hiolang Compiler/Interpreter v0.1.0 ...", 0)
                  [] OTHER -> Exits(proc, "Unknown command: " \o proc.args[1], 0)
    /\ UNCHANGED <<tokens, parser, statements, parsed, program, interp, pc, last_value,
                   returned, twin, compiler, unary>>

\* execute_code: the program parsed, Interpreter::new and interpret
RunParsed ==
    /\ Command = "run"
    /\ ParseReturn

\* compile_file: the program parsed, Compiler::new and compile
CompileParsed ==
    /\ mode = "parse"
    /\ Command = "compile"
    /\ current_token(parser).k = "Eof"
    /\ parsed' = Some(Ok(statements))
    /\ program' = statements
    /\ compiler' = CompilerNew
    /\ pc' = 1
    /\ mode' = "emit"
    /\ UNCHANGED <<lexer, tokens, parser, statements, interp, last_value, returned, twin,
                   unary, proc>>

\* run_file: the match on execute_code's result, and main's return
RunExit ==
    /\ mode = "done"
    /\ Command = "run"
    /\ proc' =
        IF returned[1].ok
        THEN Exits(proc, "Result: " \o to_string(returned[1].v, interp.hash_order), 0)
        ELSE IF Panicked(returned[1])
        THEN Exits(proc, "thread 'main' panicked", 101)
        ELSE Exits(proc, "Error: " \o returned[1].err, 0)
    /\ mode' = "exited"
    /\ UNCHANGED <<lexer, tokens, parser, statements, parsed, program, interp, pc,
                   last_value, returned, twin, compiler, unary>>

\* fs::write in serialize_bytecode
OutputFile == IF Len(proc.args) >= 3 THEN proc.args[3] ELSE "a.hio"
serialize_bytecode ==
    IF proc.writable THEN Ok(<<>>) ELSE Err("IO error: ...")

\* compile_file: the matches on the results of parse, compile and
\* serialize_bytecode, and main's return
CompileExit ==
    /\ mode \in {"done", "emitted"}
    /\ Command = "compile"
    /\ proc' =
        IF mode = "done"
        THEN Exits(proc, "Parse error: " \o parsed[1].err, 0)
        ELSE IF ~returned[1].ok
        THEN Exits(proc, "Compilation error: " \o returned[1].err, 0)
        ELSE IF serialize_bytecode.ok
        THEN Exits(proc, "Successfully compiled to " \o OutputFile, 0)
        ELSE Exits(proc, "Failed to write bytecode: " \o serialize_bytecode.err, 0)
    /\ mode' = "exited"
    /\ UNCHANGED <<lexer, tokens, parser, statements, parsed, program, interp, pc,
                   last_value, returned, twin, compiler, unary>>

NextMain ==
    \/ MainDispatch
    \/ LexStep
    \/ ParserStart
    \/ ParseStep
    \/ RunParsed
    \/ CompileParsed
    \/ ExecTop
    \/ ExecReturn
    \/ CompileTop
    \/ CompileReturn
    \/ RunExit
    \/ CompileExit

SpecMain == InitMain /\ [][NextMain]_vars

\* whether the process came to a top-level error
TopLevelError ==
    \/ Command \notin {"", "run", "compile", "version", "help"}
    \/ /\ Command \in {"run", "compile"}
       /\ Len(proc.args) >= 2
       /\ \/ ~proc.readable
          \/ parsed # NoneOpt /\ ~parsed[1].ok
          \/ Command = "run" /\ returned # NoneOpt /\ ~returned[1].ok
          \/ Command = "compile" /\ mode = "exited" /\ parsed # NoneOpt /\ parsed[1].ok
                /\ ~proc.writable

\* C19: the process ends with exit status 0 when the command succeeds and with
\* a non-zero status on any top-level error: for run an unreadable file, a
\* parse error or a runtime error; for compile an unreadable file, a parse
\* error or a failed write; and for an unknown command.
C19_ExitStatusTellsErrors ==
    mode = "exited" => (proc.status[1] = 0 <=> ~TopLevelError)

(***************************************************************************)
(* Break in loop bodies, read off the event log of the evaluations of      *)
(* SpecEval.                                                               *)
(***************************************************************************)
\* the statement sequence of statement s that the path step kind c leads into
BodyOf(s, c) ==
    CASE c = "IfThen" -> s.then_branch
      [] c = "IfElse" -> s.else_branch[1]
      [] c = "ForInit" -> <<s.init[1]>>
      [] c = "Block" -> s.stmts
      [] OTHER -> s.body

\* the statement of the program that stands at path
RECURSIVE StmtAt(_)
StmtAt(path) ==
    IF Len(path) = 1 THEN program[path[1].i]
    ELSE BodyOf(StmtAt(SubSeq(path, 1, Len(path) - 1)), path[Len(path)].c)[path[Len(path)].i]

\* the statement sequence the statement at path belongs to
SiblingsAt(path) ==
    IF Len(path) = 1 THEN program
    ELSE BodyOf(StmtAt(SubSeq(path, 1, Len(path) - 1)), path[Len(path)].c)

\* the step of path that enters the body of the innermost loop around it
LoopStep(path) ==
    CHOOSE n \in 1..Len(path) :
        /\ path[n].c \in {"While", "For"}
        /\ \A m \in (n + 1)..Len(path) : path[m].c \notin {"While", "For"}
\* the place of that loop statement
LoopOf(path) == SubSeq(path, 1, LoopStep(path) - 1)

\* log[j] is a Break executed in a loop body, directly or inside If and Block
BreakInLoop(log, j) ==
    /\ log[j].e = "stmt"
    /\ log[j].k = "Break"
    /\ InLoop(log[j].path)
    /\ \A m \in (LoopStep(log[j].path) + 1)..Len(log[j].path) :
            log[j].path[m].c \in {"IfThen", "IfElse", "Block"}

\* log[m] tells that the loop statement at lp has completed
LeftAt(log, m, lp) == log[m].e = "left" /\ log[m].path = lp

\* the loop statement at lp stands directly in the body of another loop
DirectlyInLoop(lp) == lp # <<>> /\ lp[Len(lp)].c \in {"While", "For"}

\* what follows in log once the loop at lp, a statement of the body of an
\* enclosing loop, has completed at m: the next statement of that body, or
\* the enclosing loop's increment, condition or next iteration
GoesOn(log, m, lp) ==
    /\ m + 2 <= Len(log)
    /\ log[m + 1].e = "end"
    /\ log[m + 1].path = lp
    /\ IF lp[Len(lp)].i < Len(SiblingsAt(lp))
       THEN log[m + 2].e = "stmt" /\ log[m + 2].path = NextSibling(lp)
       ELSE \/ /\ log[m + 2].e \in {"inc", "cond"}
               /\ log[m + 2].path = SubSeq(lp, 1, Len(lp) - 1)
            \/ /\ log[m + 2].e = "stmt"
               /\ log[m + 2].path = [lp EXCEPT ![Len(lp)] = [@ EXCEPT !.i = 1]]

\* C20: a Break executed in the body of a While or For loop, directly or
\* nested inside If or Block, ends only the innermost enclosing loop: that loop
\* evaluates no further body statement, increment or condition, break_flag is
\* false once that loop statement has completed, and an enclosing loop goes on
\* with the remaining statements of its body and with its later iterations.
C20_BreakEndsInnermostLoop ==
    mode = "done" =>
        \A j \in 1..Len(interp.log) :
            BreakInLoop(interp.log, j) =>
                \E m \in (j + 1)..Len(interp.log) :
                    /\ LeftAt(interp.log, m, LoopOf(interp.log[j].path))
                    /\ ~interp.log[m].brk
                    /\ \A x \in (j + 1)..(m - 1) : interp.log[x].e = "end"
                    /\ DirectlyInLoop(LoopOf(interp.log[j].path)) =>
                            GoesOn(interp.log, m, LoopOf(interp.log[j].path))

(***************************************************************************)
(* Continue in loop bodies, read off the event log of the evaluations of   *)
(* SpecEval.                                                               *)
(***************************************************************************)
\* log[j] is a Continue executed inside the body of a loop
ContinueInLoop(log, j) ==
    /\ log[j].e = "stmt"
    /\ log[j].k = "Continue"
    /\ InLoop(log[j].path)

\* the first event after j that is not the completion of a statement or the
\* leaving of a Space: what the evaluator does next (0 when log ends before)
NextDoing(log, j) ==
    IF \E m \in (j + 1)..Len(log) : log[m].e \notin {"end", "exit"}
    THEN CHOOSE m \in (j + 1)..Len(log) :
            /\ log[m].e \notin {"end", "exit"}
            /\ \A x \in (j + 1)..(m - 1) : log[x].e \in {"end", "exit"}
    ELSE 0

\* log[m] starts the first statement of the body of the loop at lp
FirstOfBody(log, m, lp) ==
    /\ log[m].e = "stmt"
    /\ Len(log[m].path) = Len(lp) + 1
    /\ SubSeq(log[m].path, 1, Len(lp)) = lp
    /\ log[m].path[Len(lp) + 1].c \in {"While", "For"}
    /\ log[m].path[Len(lp) + 1].i = 1

\* log[m] re-tests the condition of the loop at lp or, the condition absent,
\* starts its next iteration
Retests(log, m, lp) ==
    /\ m <= Len(log)
    /\ IF StmtAt(lp).k = "For" /\ StmtAt(lp).condition = NoneOpt
       THEN FirstOfBody(log, m, lp)
       ELSE log[m].e = "cond" /\ log[m].path = lp

\* C21: a Continue executed in the body of a For loop skips the remaining body
\* statements of that iteration, after which the increment (when present) is
\* evaluated exactly once and then the condition is re-tested; in a While loop
\* the condition is re-tested directly; in both, continue_flag is false when
\* the next iteration's first body statement runs and when the loop completes.
C21_ContinueGoesToNextIteration ==
    mode = "done" =>
        \A j \in 1..Len(interp.log) :
            ContinueInLoop(interp.log, j) =>
                /\ NextDoing(interp.log, j) # 0
                /\ IF StmtAt(LoopOf(interp.log[j].path)).k = "For"
                      /\ StmtAt(LoopOf(interp.log[j].path)).increment # NoneOpt
                   THEN /\ interp.log[NextDoing(interp.log, j)].e = "inc"
                        /\ interp.log[NextDoing(interp.log, j)].path =
                                LoopOf(interp.log[j].path)
                        /\ Retests(interp.log, NextDoing(interp.log, j) + 1,
                                   LoopOf(interp.log[j].path))
                   ELSE Retests(interp.log, NextDoing(interp.log, j),
                                LoopOf(interp.log[j].path))
                /\ \A m \in (j + 1)..Len(interp.log) :
                        (/\ \/ FirstOfBody(interp.log, m, LoopOf(interp.log[j].path))
                            \/ LeftAt(interp.log, m, LoopOf(interp.log[j].path))
                         /\ \A x \in (j + 1)..(m - 1) :
                                ~LeftAt(interp.log, x, LoopOf(interp.log[j].path)))
                            => ~interp.log[m].cont

(***************************************************************************)
(* The layout of emitted code.  ExprLen and StmtLen count the instructions *)
(* a tree is emitted as; Laid walks a statement list laid out from index   *)
(* `at` of a sequence (indices from 0, as jump operands are) and tests the *)
(* layout of every If (what = "If") or every loop (what = "Loop") in it.   *)
(* The body of a FunctionDef takes no room in the enclosing sequence.      *)
(***************************************************************************)
RECURSIVE ExprLen(_)
RECURSIVE ExprsLen(_, _)
ExprsLen(es, i) == IF i > Len(es) THEN 0 ELSE ExprLen(es[i]) + ExprsLen(es, i + 1)
ExprLen(e) ==
    CASE e.k \in {"Number", "Float", "String", "Boolean", "Identifier"} -> 1
      [] e.k = "Binary" -> ExprLen(e.left) + ExprLen(e.right) + 1
      [] e.k = "Unary" -> ExprLen(e.expr) + 1
      [] e.k = "Call" ->
            ExprsLen(e.args, 1) + (IF e.func.k = "Identifier" THEN 1 ELSE 0)
      [] e.k = "Array" -> ExprsLen(e.elems, 1) + 1
      [] e.k = "Object" ->
            ExprsLen([n \in 1..Len(e.pairs) |-> e.pairs[n][2]], 1) + 1
      [] e.k = "Index" -> ExprLen(e.object) + ExprLen(e.index) + 1
      [] e.k = "Member" -> ExprLen(e.object) + 1

OptExprLen(opt, dflt) == IF opt = NoneOpt THEN dflt ELSE ExprLen(opt[1])
ElseOf(s) == IF s.else_branch = NoneOpt THEN <<>> ELSE s.else_branch[1]

RECURSIVE StmtLen(_)
RECURSIVE StmtsLen(_, _)
StmtsLen(stmts, i) ==
    IF i > Len(stmts) THEN 0 ELSE StmtLen(stmts[i]) + StmtsLen(stmts, i + 1)
StmtLen(s) ==
    CASE s.k \in {"Expression", "Let", "Assign"} ->
            ExprLen(IF s.k = "Expression" THEN s.expr ELSE s.value) + 1
      [] s.k = "If" ->
            ExprLen(s.condition) + 1 + StmtsLen(s.then_branch, 1) + 1
                + StmtsLen(ElseOf(s), 1)
      [] s.k = "While" -> ExprLen(s.condition) + 1 + StmtsLen(s.body, 1) + 1
      [] s.k = "For" ->
            StmtsLen(s.init, 1) + OptExprLen(s.condition, 1) + 1 + StmtsLen(s.body, 1)
                + (IF s.increment = NoneOpt THEN 0 ELSE ExprLen(s.increment[1]) + 1) + 1
      [] s.k = "Return" -> OptExprLen(s.value, 0) + 1
      [] s.k \in {"FunctionDef", "Break", "Continue"} -> 0
      [] s.k = "Block" -> StmtsLen(s.stmts, 1)
      [] OTHER -> StmtsLen(s.body, 1)

\* the instruction at index n (from 0) of code is a kind jump with operand addr
JumpAt(code, n, kind, addr) ==
    /\ n < Len(code)
    /\ code[n + 1].k = kind
    /\ code[n + 1].addr = addr

\* the index of the Jump that ends the then branch of the If laid out from at
IfJump(at, s) == at + ExprLen(s.condition) + 1 + StmtsLen(s.then_branch, 1)

\* an If laid out from at: condition, JumpIfFalse to the index after the Jump,
\* then branch, Jump to the index after the else branch, else branch
IfLaid(code, at, s) ==
    /\ JumpAt(code, at + ExprLen(s.condition), "JumpIfFalse", IfJump(at, s) + 1)
    /\ JumpAt(code, IfJump(at, s), "Jump", IfJump(at, s) + 1 + StmtsLen(ElseOf(s), 1))

\* the index of the first instruction of the condition of the loop laid out
\* from at, and of the Jump that closes it
LoopStart(at, s) == IF s.k = "For" THEN at + StmtsLen(s.init, 1) ELSE at
LoopBody(at, s) ==
    LoopStart(at, s) + (IF s.k = "For" THEN OptExprLen(s.condition, 1)
                        ELSE ExprLen(s.condition)) + 1
LoopJump(at, s) == at + StmtLen(s) - 1

\* a loop laid out from at: (init,) condition or PushBool true, JumpIfFalse to
\* the index after the closing Jump, body, (increment, Pop,) Jump to the
\* condition
LoopLaid(code, at, s) ==
    /\ JumpAt(code, LoopJump(at, s), "Jump", LoopStart(at, s))
    /\ JumpAt(code, LoopBody(at, s) - 1, "JumpIfFalse", LoopJump(at, s) + 1)
    /\ (s.k = "For" /\ s.condition = NoneOpt) =>
            code[LoopStart(at, s) + 1] = OpV("PushBool", TRUE)
    /\ (s.k = "For" /\ s.increment # NoneOpt) =>
            /\ code[LoopJump(at, s)] = Op("Pop")
            /\ LoopBody(at, s) + StmtsLen(s.body, 1) + ExprLen(s.increment[1])
                    = LoopJump(at, s) - 1

RECURSIVE Laid(_, _, _, _, _)
RECURSIVE LaidStmt(_, _, _, _)
Laid(code, at, stmts, i, what) ==
    IF i > Len(stmts) THEN TRUE
    ELSE /\ LaidStmt(code, at, stmts[i], what)
         /\ Laid(code, at + StmtLen(stmts[i]), stmts, i + 1, what)
LaidStmt(code, at, s, what) ==
    CASE s.k = "If" ->
            /\ what = "If" => IfLaid(code, at, s)
            /\ Laid(code, at + ExprLen(s.condition) + 1, s.then_branch, 1, what)
            /\ Laid(code, IfJump(at, s) + 1, ElseOf(s), 1, what)
      [] s.k \in {"While", "For"} ->
            /\ what = "Loop" => LoopLaid(code, at, s)
            /\ s.k = "For" => Laid(code, at, s.init, 1, what)
            /\ Laid(code, LoopBody(at, s), s.body, 1, what)
      [] s.k = "Block" -> Laid(code, at, s.stmts, 1, what)
      [] s.k \in {"Space", "Pub", "Subpub"} -> Laid(code, at, s.body, 1, what)
      [] OTHER -> TRUE

\* the FunctionDef of a statement list that is compiled to its end last: its
\* sequence is the one the function table holds under the name in the end
\* (<<>> when the list defines no function)
RECURSIVE LastDef(_, _)
RECURSIVE LastDefIn(_)
LastDef(stmts, i) ==
    IF i < 1 THEN <<>>
    ELSE IF LastDefIn(stmts[i]) # <<>> THEN LastDefIn(stmts[i])
    ELSE LastDef(stmts, i - 1)
LastDefIn(s) ==
    CASE s.k = "FunctionDef" -> <<s>>
      [] s.k = "If" ->
            IF LastDef(ElseOf(s), Len(ElseOf(s))) # <<>>
            THEN LastDef(ElseOf(s), Len(ElseOf(s)))
            ELSE LastDef(s.then_branch, Len(s.then_branch))
      [] s.k = "For" ->
            IF LastDef(s.body, Len(s.body)) # <<>> THEN LastDef(s.body, Len(s.body))
            ELSE LastDef(s.init, Len(s.init))
      [] s.k = "While" -> LastDef(s.body, Len(s.body))
      [] s.k = "Block" -> LastDef(s.stmts, Len(s.stmts))
      [] s.k \in {"Space", "Pub", "Subpub"} -> LastDef(s.body, Len(s.body))
      [] OTHER -> <<>>

\* the top-level statements compiled so far
Compiled == SubSeq(program, 1, pc - 1)

\* every If (every loop) compiled so far is laid out as Laid tests it: those
\* of the main sequence, and those of the function compiled last, in the
\* sequence the function table holds for it
AllLaid(what) ==
    /\ Laid(compiler.bytecode, 0, Compiled, 1, what)
    /\ LastDef(Compiled, pc - 1) # <<>> =>
            /\ LastDef(Compiled, pc - 1)[1].name \in DOMAIN compiler.functions
            /\ Laid(compiler.functions[LastDef(Compiled, pc - 1)[1].name], 0,
                    LastDef(Compiled, pc - 1)[1].body, 1, what)

\* C22: for every If statement the emitter produces condition code,
\* JumpIfFalse, then-branch code, Jump, else-branch code in that order; the
\* JumpIfFalse operand is the index immediately after that Jump and the Jump
\* operand is the index immediately after the last else-branch instruction;
\* both are emitted and patched also when the else-branch is absent, both
\* operands then naming the same index.
C22_IfLayout ==
    mode \in {"emit", "emitted"} => AllLaid("If")

\* an If without else branch compiled inside a function, behind code of the
\* main sequence: both of its jumps aim at the index after the Jump
C22_Witness ==
    /\ mode = "emitted"
    /\ Len(compiler.bytecode) > 0
    /\ LastDef(program, Len(program)) # <<>>
    /\ \E n \in 1..Len(LastDef(program, Len(program))[1].body) :
        /\ LastDef(program, Len(program))[1].body[n].k = "If"
        /\ LastDef(program, Len(program))[1].body[n].else_branch = NoneOpt
    /\ \E name \in DOMAIN compiler.functions :
        \E n, m \in 1..Len(compiler.functions[name]) :
            /\ n < m
            /\ compiler.functions[name][n].k = "JumpIfFalse"
            /\ compiler.functions[name][m].k = "Jump"
            /\ compiler.functions[name][n].addr = m
            /\ compiler.functions[name][m].addr = m

\* C23: for every While and For statement the closing Jump's operand is the
\* index of the first instruction of the loop condition (for For: the
\* instruction after the init code, which is PushBool true when the condition
\* is absent), the JumpIfFalse operand is the index immediately after that
\* closing Jump, and in a For with an increment the increment's code followed
\* by Pop sits between the body code and the closing Jump.
C23_LoopLayout ==
    mode \in {"emit", "emitted"} => AllLaid("Loop")

\* a For with init, condition and increment compiled behind other code of the
\* main sequence, a statement in its body: its Jump aims behind the init code
C23_Witness ==
    /\ mode = "emitted"
    /\ program[2].k = "For"
    /\ program[2].increment # NoneOpt
    /\ program[2].body # <<>>
    /\ LoopStart(StmtLen(program[1]), program[2]) > StmtLen(program[1])
    /\ StmtLen(program[1]) > 0
    /\ JumpAt(compiler.bytecode, LoopJump(StmtLen(program[1]), program[2]), "Jump",
              LoopStart(StmtLen(program[1]), program[2]))
    /\ Len(compiler.bytecode) = LoopJump(StmtLen(program[1]), program[2]) + 1

\* a statement list with its FunctionDefs taken out, at every depth
RECURSIVE Strip(_, _)
RECURSIVE StripStmt(_)
Strip(stmts, i) ==
    IF i > Len(stmts) THEN <<>>
    ELSE IF stmts[i].k = "FunctionDef" THEN Strip(stmts, i + 1)
    ELSE <<StripStmt(stmts[i])>> \o Strip(stmts, i + 1)
StripStmt(s) ==
    CASE s.k = "If" ->
            SIf(s.condition, Strip(s.then_branch, 1),
                IF s.else_branch = NoneOpt THEN NoneOpt
                ELSE Some(Strip(s.else_branch[1], 1)))
      [] s.k = "While" -> SWhile(s.condition, Strip(s.body, 1))
      [] s.k = "For" ->
            SFor(Strip(s.init, 1), s.condition, s.increment, Strip(s.body, 1))
      [] s.k = "Block" -> SBlock(Strip(s.stmts, 1))
      [] s.k \in {"Space", "Pub", "Subpub"} -> [s EXCEPT !.body = Strip(@, 1)]
      [] OTHER -> s

\* the main sequence of a fresh compiler that has compiled stmts
MainOf(stmts) == CompileStmts(CompilerNew, stmts, 1).c.bytecode

\* C24: compiling a FunctionDef, at top level or nested inside If, While, For
\* or another FunctionDef, leaves the enclosing sequence exactly as it was
\* just before the definition (the main sequence is the one the program
\* without its definitions compiles to, If and loop layout included), and
\* stores under the function's name the body's code followed by one Return,
\* its jump operands indices into that function sequence.
C24_FunctionDefLeavesSequence ==
    mode \in {"emit", "emitted"} =>
        /\ Len(compiler.bytecode) = StmtsLen(Compiled, 1)
        /\ compiler.bytecode = MainOf(Strip(Compiled, 1))
        /\ LastDef(Compiled, pc - 1) # <<>> =>
            /\ LastDef(Compiled, pc - 1)[1].name \in DOMAIN compiler.functions
            /\ Len(compiler.functions[LastDef(Compiled, pc - 1)[1].name])
                    = StmtsLen(LastDef(Compiled, pc - 1)[1].body, 1) + 1
            /\ Last(compiler.functions[LastDef(Compiled, pc - 1)[1].name]) = Op("Return")
            /\ JumpsWithin(compiler.functions[LastDef(Compiled, pc - 1)[1].name])
            /\ AllLaid("If")
            /\ AllLaid("Loop")

\* a function defined inside a loop of the main sequence, behind other code,
\* its body a statement, a loop and no nested definition
C24_Witness ==
    /\ mode = "emitted"
    /\ program[2].k \in {"While", "For"}
    /\ LastDefIn(program[2]) # <<>>
    /\ Len(LastDefIn(program[2])[1].body) = 3
    /\ LastDefIn(program[2])[1].body[2].k = "While"
    /\ Len(compiler.functions[n_f]) = StmtsLen(LastDefIn(program[2])[1].body, 1) + 1
    /\ Len(compiler.bytecode) = StmtLen(program[1]) + StmtLen(program[2])
    /\ JumpAt(compiler.bytecode, Len(compiler.bytecode) - 1, "Jump",
              LoopStart(StmtLen(program[1]), program[2]))


(***************************************************************************)
(* `&&` and `||`: one expression statement `a && b` or `a || b`, a and b   *)
(* plain reads of the globals v and w, prints, or expressions that fail.   *)
(***************************************************************************)
n_u == <<"u">>
s_a == <<"a">>
s_b == <<"b">>

\* the left operand: v, or print("a"), which shows on stdout and yields Void
LeftOperands == <<EIdentifier(n_v), ECall(EIdentifier(s_print), <<EString(s_a)>>)>>
\* the right operand: w, print("b"), the undefined u, and 1 / 0
RightOperands ==
    <<EIdentifier(n_w), ECall(EIdentifier(s_print), <<EString(s_b)>>),
      EIdentifier(n_u), EBinary(ENumber(1), "Divide", ENumber(0))>>
\* the values of w, a truthy and a falsey one of the variants that have both
RightValues ==
    <<VBoolean(TRUE), VBoolean(FALSE), VNumber(0), VNumber(2), VString(<<>>),
      VString(s_a), VArray(<<>>), VArray(<<VNumber(0)>>), VObject(EmptyMap),
      VFloat(NormFloat(0, 0)), VVoid>>

InitLogic ==
    /\ mode = "eval"
    /\ \E a \in 1..Len(LeftOperands), b \in 1..Len(RightOperands), op \in {"And", "Or"} :
        program = <<SExpression(EBinary(LeftOperands[a], op, RightOperands[b]))>>
    /\ \/ unary \in BooleanValues
       \/ unary \in NumberValues
       \/ unary \in FloatValues
       \/ unary \in StringValues
       \/ unary \in ArrayValues
       \/ unary \in ObjectValues
       \/ unary = VVoid
    /\ \E w \in 1..Len(RightValues) :
        interp = set_variable(set_variable(InterpreterNew(<<n_x, n_y>>), n_v, unary),
                              n_w, RightValues[w])
    /\ pc = 1
    /\ last_value = VVoid
    /\ returned = NoneOpt
    /\ lexer = IdleLexer
    /\ tokens = <<>>
    /\ parser = IdleParser
    /\ statements = <<>>
    /\ parsed = <<>>
    /\ twin = <<>>
    /\ compiler = <<>>
    /\ proc = <<>>

SpecLogic == InitLogic /\ [][NextEval]_vars

\* the operands of the statement, the value of each one that succeeds, what
\* each one shows on stdout and the error of a right operand that fails
LogicLeft == program[1].expr.left
LogicRight == program[1].expr.right
LeftValue == IF LogicLeft.k = "Identifier" THEN unary ELSE VVoid
RightValue == IF LogicRight.k = "Identifier" THEN interp.globals[n_w] ELSE VVoid
LeftShows == IF LogicLeft.k = "Call" THEN "a\n" ELSE ""
RightShows == IF LogicRight.k = "Call" THEN "b\n" ELSE ""
RightFails ==
    \/ LogicRight.k = "Identifier" /\ LogicRight.name = n_u
    \/ LogicRight.k = "Binary"
RightError ==
    IF LogicRight.k = "Binary" THEN "Division by zero" ELSE "Undefined variable: u"
\* the left operand alone determines the result
LeftDecides ==
    \/ program[1].expr.op = "And" /\ Falsey(LeftValue)
    \/ program[1].expr.op = "Or" /\ ~Falsey(LeftValue)
Connective(p, q) == IF program[1].expr.op = "And" THEN p /\ q ELSE p \/ q

\* C25: for `a && b` and `a || b` the evaluator evaluates a and then b,
\* whatever the value of a: what b shows on stdout follows what a shows, an
\* error of b is the error of the statement even when a alone determines the
\* result, and when both succeed the result is Boolean(truthy(a) and
\* truthy(b)) resp. Boolean(truthy(a) or truthy(b)) for every pair of
\* variants, integer pairs included.
C25_BothOperandsEvaluated ==
    mode = "done" =>
        /\ interp.stdout = LeftShows \o RightShows
        /\ returned # NoneOpt
        /\ RightFails => ~returned[1].ok /\ returned[1].err = RightError
        /\ ~RightFails =>
            /\ returned[1].ok
            /\ returned[1].v.t = "Boolean"
            /\ returned[1].v.v = Connective(is_truthy(LeftValue), is_truthy(RightValue))

\* `0 && print("b")`: the left operand decides, and b is on stdout all the same
C25_Witness ==
    /\ mode = "done"
    /\ program[1].expr.op = "And"
    /\ LogicLeft.k = "Identifier"
    /\ unary.t = "Number"
    /\ unary.v = 0
    /\ LeftDecides
    /\ LogicRight.k = "Call"
    /\ interp.stdout = "b\n"
    /\ returned[1].ok
    /\ returned[1].v.t = "Boolean"
    /\ ~returned[1].v.v


(***************************************************************************)
(* Numeric literals: every input over NumAlphabet up to MaxNumLen chars,   *)
(* long enough for a literal with two dots.                                *)
(***************************************************************************)
NumAlphabet == {"1", "2", ".", "a"}

InitNum ==
    /\ mode = "lex"
    /\ \E chars \in SeqsUpTo(NumAlphabet, MaxNumLen) : lexer = LexerNew(chars)
    /\ tokens = <<>>
    /\ parser = IdleParser
    /\ statements = <<>>
    /\ parsed = <<>>
    /\ program = <<>>
    /\ interp = <<>>
    /\ pc = 0
    /\ last_value = <<>>
    /\ returned = <<>>
    /\ twin = <<>>
    /\ compiler = <<>>
    /\ unary = <<>>
    /\ proc = <<>>

SpecNum == InitNum /\ [][NextLex]_vars

\* the lexer stands at the first digit of a numeric literal
AtNumber == mode = "lex" /\ lexer.current_char # None /\ is_numeric(lexer.current_char)
\* the text read_number consumes from there, and the char after it
NumberText == SubSeq(lexer.input, lexer.position + 1, read_number(lexer).lx.position)
AfterNumber == read_number(lexer).lx.current_char
\* digits and dots, each dot with a digit after it, and nothing that could
\* go on the literal behind it
DigitRun(cs, dots) ==
    /\ \A i \in 1..Len(cs) : is_numeric(cs[i]) \/ cs[i] = "."
    /\ \A i \in 1..Len(cs) : cs[i] = "." => (i < Len(cs) /\ is_numeric(cs[i + 1]))
    /\ DotCount(cs) \in dots
    /\ AfterNumber = None \/ ~is_numeric(AfterNumber)

\* C26: the lexer reads a numeric literal as a run of decimal digits with at
\* most one `.`, which a digit follows: the token is Float when a `.` was
\* consumed and Integer otherwise, and a second `.` is not part of the
\* literal.
C26_NumberHasOneDot ==
    AtNumber =>
        /\ DigitRun(NumberText, {0, 1})
        /\ read_number(lexer).tok.k = (IF DotCount(NumberText) = 1 THEN "Float" ELSE "Number")


(***************************************************************************)
(* Pub, Subpub and Block around Let and Assign: `let x = 0;`, one of the   *)
(* three constructs and `print(x);`, at top level or as the body of a      *)
(* Space.                                                                  *)
(***************************************************************************)
\* what the body of the construct is made of: writes of x, a Space with its
\* own x, a nested Block that writes x, a Space that fails, a Let that fails
ScopeBodyStmts ==
    {SLet(n_x, ENumber(1)),
     SAssign(n_x, ENumber(2)),
     SSpace(n_s, <<SLet(n_x, ENumber(3))>>),
     SBlock(<<SLet(n_x, ENumber(4))>>),
     SSpace(n_s, <<SLet(n_y, EBinary(ENumber(1), "Divide", ENumber(0)))>>)}
ScopeBodies == SeqsUpTo(ScopeBodyStmts, MaxElems) \ {<<>>}
ScopeConstructs(body) ==
    {SBlock(body), SPub(n_s, <<"i">>, body), SSubpub(n_s, <<"c">>, body)}
ScopeStmts ==
    {<<SLet(n_x, ENumber(0)), c, SExpression(ECall(EIdentifier(s_print), <<EIdentifier(n_x)>>))>> :
        c \in UNION {ScopeConstructs(b) : b \in ScopeBodies}}
ScopePrograms == ScopeStmts \cup {<<SSpace(n_s, p)>> : p \in ScopeStmts}

InitScope ==
    /\ mode = "eval"
    /\ program \in ScopePrograms
    /\ interp = InterpreterNew(<<n_x, n_y>>)
    /\ pc = 1
    /\ last_value = VVoid
    /\ returned = NoneOpt
    /\ lexer = IdleLexer
    /\ tokens = <<>>
    /\ parser = IdleParser
    /\ statements = <<>>
    /\ parsed = <<>>
    /\ twin = <<>>
    /\ compiler = <<>>
    /\ unary = <<>>
    /\ proc = <<>>

SpecScope == InitScope /\ [][NextEval]_vars

\* path p leads to path q or into the statement at q
Under(p, q) == Len(p) >= Len(q) /\ SubSeq(p, 1, Len(q)) = q
\* the scope-stack depth once the statement that event j starts has been
\* executed: the depth at the next statement outside it, the depth now when
\* there is none
DepthAfter(log, j) ==
    IF \E m \in (j + 1)..Len(log) : log[m].e = "stmt" /\ ~Under(log[m].path, log[j].path)
    THEN log[CHOOSE m \in (j + 1)..Len(log) :
                /\ log[m].e = "stmt" /\ ~Under(log[m].path, log[j].path)
                /\ \A x \in (j + 1)..(m - 1) :
                        ~(log[x].e = "stmt" /\ ~Under(log[x].path, log[j].path))].depth
    ELSE Len(interp.locals)

\* the value of x that the writes of a body leave in the frame the body
\* started with, x being `was` before: a Space writes to a frame of its own
RECURSIVE Written(_, _, _)
Written(stmts, i, was) ==
    IF i > Len(stmts) THEN was
    ELSE IF stmts[i].k = "Let" /\ stmts[i].name = n_x
    THEN Written(stmts, i + 1, stmts[i].value.v)
    ELSE IF stmts[i].k = "Assign" THEN Written(stmts, i + 1, stmts[i].value.v)
    ELSE IF stmts[i].k = "Block" THEN Written(stmts, i + 1, Written(stmts[i].stmts, 1, was))
    ELSE Written(stmts, i + 1, was)

\* the program's construct, and whether the program stands in a Space
InSpace == program[1].k = "Space"
ScopeConstruct == IF InSpace THEN program[1].body[2] ELSE program[2]
ScopeBody == IF ScopeConstruct.k = "Block" THEN ScopeConstruct.stmts ELSE ScopeConstruct.body

\* C27: executing a Pub, Subpub or Block never changes the scope-stack
\* depth (its body's statements run at the depth it started at, and that is
\* the depth once it has been executed), and a Let or Assign of its body
\* writes to the frame a Let directly before the construct writes to, the
\* top local frame or else globals: the binding is visible with that value
\* after the construct.
C27_ConstructKeepsFrame ==
    /\ \A j \in 1..Len(interp.log) :
        (interp.log[j].e = "stmt" /\ interp.log[j].k \in {"Pub", "Subpub", "Block"}) =>
            /\ \A m \in (j + 1)..Len(interp.log) :
                (/\ interp.log[m].e = "stmt"
                 /\ Len(interp.log[m].path) = Len(interp.log[j].path) + 1
                 /\ Under(interp.log[m].path, interp.log[j].path)) =>
                    interp.log[m].depth = interp.log[j].depth
            /\ DepthAfter(interp.log, j) = interp.log[j].depth
    /\ (mode = "done" /\ returned[1].ok) =>
            /\ interp.stdout = to_string(VNumber(Written(ScopeBody, 1, 0)), interp.hash_order) \o "\n"
            /\ ~InSpace => interp.globals[n_x] = VNumber(Written(ScopeBody, 1, 0))
            /\ InSpace => n_x \notin DOMAIN interp.globals


(***************************************************************************)
(* A Break or Continue outside every loop: the programs of EvalPrograms    *)
(* that begin `let i = 0; break;` or `let i = 0; continue;`, beside the    *)
(* same program without its second statement.                              *)
(***************************************************************************)
\* Interpreter::interpret run to its end on prog, from run
RECURSIVE InterpretFrom(_, _)
InterpretFrom(run, prog) ==
    IF run.mode # "eval" THEN run
    ELSE IF run.pc > Len(prog) THEN InterpretReturn(run)
    ELSE InterpretFrom(InterpretStep(run, prog), prog)

\* the second statement is a Break or Continue that no loop is around
Stray == Len(program) >= 3 /\ program[2].k \in {"Break", "Continue"}
WithoutStray == <<program[1]>> \o SubSeq(program, 3, Len(program))
RunWithoutStray ==
    InterpretFrom([interp |-> InterpreterNew(interp.hash_order), pc |-> 1,
                   last_value |-> VVoid, returned |-> NoneOpt, mode |-> "eval"],
                  WithoutStray)

\* what the top-level statement at index top did, in order: the statements
\* executed in it and the evaluations of a loop's condition and increment,
\* each with its place in that statement
RECURSIVE Doings(_, _, _)
Doings(log, j, top) ==
    IF j > Len(log) THEN <<>>
    ELSE IF log[j].e \in {"stmt", "cond", "inc"} /\ log[j].path[1].i = top
    THEN <<[e |-> log[j].e, path |-> Tail(log[j].path)]>> \o Doings(log, j + 1, top)
    ELSE Doings(log, j + 1, top)

\* C28: a Break or Continue executed outside every loop does not change the
\* behaviour of a loop executed later in the same program: the loop runs the
\* same iterations and the same body statements as in the program without
\* the stray statement.
C28_StrayFlagLeavesLaterLoops ==
    (/\ mode = "done"
     /\ Stray
     /\ program[3].k \in {"While", "For"}
     /\ RunWithoutStray.mode = "done") =>
        Doings(interp.log, 1, 3) = Doings(RunWithoutStray.interp.log, 1, 2)


(***************************************************************************)
(* The code of one expression statement, for expressions of every form:    *)
(* calls with a bare identifier, a member and a call as callee, and with   *)
(* zero to MaxElems arguments.                                             *)
(***************************************************************************)
StackLeaves == {ENumber(1), EIdentifier(n_v), EBoolean(TRUE)}
StackCallees ==
    {EIdentifier(n_f), EMember(EIdentifier(s_writeutil), s_text),
     ECall(EIdentifier(n_f), <<>>)}
StackCalls(args) == {ECall(f, as) : f \in StackCallees, as \in SeqsUpTo(args, MaxElems)}
StackExprs1 ==
    StackLeaves
    \cup {EBinary(l, "Add", r) : l \in StackLeaves, r \in StackLeaves}
    \cup {EUnary("Not", l) : l \in StackLeaves}
    \cup {EIndex(l, r) : l \in StackLeaves, r \in StackLeaves}
    \cup {EMember(l, n_x) : l \in StackLeaves}
    \cup {EArray(es) : es \in SeqsUpTo(StackLeaves, MaxElems)}
    \cup {EObject(<<>>), EObject(<<<<n_x, ENumber(1)>>, <<n_y, EIdentifier(n_v)>>>>)}
    \cup StackCalls(StackLeaves)
StackExprs ==
    StackExprs1
    \cup {EUnary("Negate", e) : e \in StackExprs1}
    \cup {ECall(f, <<e>>) : f \in StackCallees, e \in StackExprs1}
    \cup {EBinary(ENumber(1), "Less", e) : e \in StackExprs1}

InitStack ==
    /\ mode = "emit"
    /\ \E e \in StackExprs : program = <<SExpression(e)>>
    /\ compiler = CompilerNew
    /\ pc = 1
    /\ returned = NoneOpt
    /\ lexer = IdleLexer
    /\ tokens = <<>>
    /\ parser = IdleParser
    /\ statements = <<>>
    /\ parsed = <<>>
    /\ interp = <<>>
    /\ last_value = <<>>
    /\ twin = <<>>
    /\ unary = <<>>
    /\ proc = <<>>

SpecStack == InitStack /\ [][NextEmit]_vars

\* the stack effect of an instruction, as the instruction set states it
StackEffect(op) ==
    CASE op.k \in {"PushNumber", "PushFloat", "PushString", "PushBool", "GetGlobal"} -> 1
      [] op.k \in {"Negate", "Not", "Member"} -> 0
      [] op.k \in {"ArrayCreate", "ObjectCreate"} -> 1 - op.v
      [] op.k = "Call" -> 1 - op.argc
      [] OTHER -> -1

\* the stack depth after the first n instructions of code, from depth 0
RECURSIVE DepthAt(_, _)
DepthAt(code, n) == IF n = 0 THEN 0 ELSE DepthAt(code, n - 1) + StackEffect(code[n])

\* C29: in the code emitted for an expression statement the stack depth never
\* goes below its starting depth and is back at the starting depth after the
\* statement's final Pop, for every callee form of a Call expression and
\* every argument count.
C29_StatementLeavesStackLevel ==
    mode = "emitted" =>
        /\ compiler.bytecode # <<>>
        /\ Last(compiler.bytecode) = Op("Pop")
        /\ \A n \in 1..Len(compiler.bytecode) : DepthAt(compiler.bytecode, n) >= 0
        /\ DepthAt(compiler.bytecode, Len(compiler.bytecode)) = 0


(***************************************************************************)
(* Termination of Parser::parse: what one iteration of each of the         *)
(* parser's loops does, started at every position of the token sequence.   *)
(***************************************************************************)
\* the parser at position q of the token sequence
ParserAt(q) == [tokens |-> tokens, position |-> q]
\* the outcome x of a loop's iteration started at q is an error, or has
\* consumed a token
Consumes(x, q) == ~x.r.ok \/ x.p.position > q
Levels ==
    {"multiplicative", "additive", "comparison", "equality", "logical_and", "logical_or"}

\* one iteration of each loop, started at q
IterationsAdvance(q) ==
    \* the statement lists: top level, and the bodies, which also stop at `}`
    /\ current_token(ParserAt(q)).k # "Eof" => Consumes(parse_statement(ParserAt(q)), q)
    \* argument lists and array elements; the list of `call.NAME(` goes round
    \* at Eof too
    /\ Consumes(parse_expression(ParserAt(q)), q)
    \* the operator chains: an iteration takes the operator
    /\ \A level \in Levels :
            LevelNext(ParserAt(q), level, EIdentifier(n_a)).again =>
                LevelNext(ParserAt(q), level, EIdentifier(n_a)).p.position > q
    \* the parameter list
    /\ current_token(ParserAt(q)).k = "Identifier" =>
            SkipComma(p_advance(ParserAt(q))).position > q
    \* the postfix chain
    /\ current_token(ParserAt(q)).k \in {"LeftParen", "LeftBracket", "Dot"} =>
            p_advance(ParserAt(q)).position > q

\* C30: Parser::parse terminates on every token sequence that ends in Eof,
\* returning a Program or an error: every iteration of every parser loop
\* (statement lists, argument lists with the `call.NAME(...)` form, array
\* elements, parameter lists, operator chains, postfix chains) consumes at
\* least one token or returns an error, so no loop makes more iterations
\* than there are tokens.
C30_ParseTerminates ==
    /\ mode = "lexed" =>
            /\ tokens # <<>> /\ Last(tokens) = EofTok
            /\ \A q \in 0..Len(tokens) : IterationsAdvance(q)
    /\ mode = "parse" =>
            /\ Len(statements) <= parser.position
            /\ parser.position <= Len(tokens)
    /\ mode \in {"parsed", "done"} => parsed # NoneOpt

\* `call.f(1);` parsed to a Program of one call with one argument
C30_Witness ==
    /\ mode = "parsed"
    /\ tokens[1].k = "Call"
    /\ parsed[1].ok
    /\ Len(parsed[1].v) = 1
    /\ parsed[1].v[1].expr.k = "Call"
    /\ Len(parsed[1].v[1].expr.args) = 1
    /\ parser.position = Len(tokens) - 1

=============================================================================
